---- MODULE Spec2Model ----
(***************************************************************************)
(* A model of the Jira-GitHub bridge: the webhook ingress                  *)
(* (src/src/webhook_server.py), the decision procedure                     *)
(* _process_pr_comment_for_jira, the issue cache and the scorer            *)
(* (src/src/jira_client.py) and the trigger classifier                     *)
(* (src/src/github_client.py).                                             *)
(*                                                                         *)
(* Conventions.  An Optional value is a sequence of length at most one:    *)
(* None is <<>> and a present value x is <<x>>.  A text is the set of its  *)
(* tokens.  Scores are integers: a field ratio is a percentage 0..100 (the *)
(* value fuzz.token_sort_ratio returns before the division by 100) and a   *)
(* combined score or a threshold is in thousandths (0.7 is 700).           *)
(*                                                                         *)
(* The client methods are declared async but contain no await of their     *)
(* own, so one invocation of _process_pr_comment_for_jira runs to its end  *)
(* without yielding to the event loop.  Spec keeps one invocation in       *)
(* flight and exposes its steps, one action per collaborator call.         *)
(* SpecCache is the JiraClient alone, its operations called in any order;  *)
(* SpecConc interleaves the background tasks at every collaborator call,   *)
(* which is more than the event loop does.                                 *)
(***************************************************************************)
EXTENDS Integers, Sequences, FiniteSets, TLC

VARIABLES srv, now, issues, last_sync, upstream, created, http, task, inv

vars == <<srv, now, issues, last_sync, upstream, created, http, task, inv>>

----------------------------------------------------------------------------
(* Bounds of the model *)

\* the clock runs from 0 to MaxTime minutes
MaxTime == 6

\* the number of issues the server may create upstream in one run
MaxCreate == 1

\* the number of background tasks that run at the same time
MaxTasks == 2

\* the length of the caches the scorer is run on
MaxItems == 3

\* the most tools registered with one SimpleMCPServer
MaxTools == 3

(* Program constants *)

\* timedelta(minutes=5) in needs_sync
SyncWindow == 5

\* threshold: float = 0.7 of _process_pr_comment_for_jira, in thousandths
DefaultThreshold == 700

\* the weights of the combined score, in tenths
WSummary == 7

WDescription == 3

WLabels == 2

----------------------------------------------------------------------------
(* Optional values *)

None == <<>>

Some(x) == <<x>>

IsNone(o) == o = <<>>

Get(o) == o[1]

Min(a, b) == IF a <= b THEN a ELSE b

----------------------------------------------------------------------------
(* Inputs: comments, pull requests, upstream issues *)

\* the trigger patterns of is_create_jira_comment
Triggers ==
  {"create jira", "make jira", "new jira", "jira issue", "create issue", "create ticket"}

\* A comment text: the trigger phrases it contains, its explicit
\* "summary:" / "type:" / "labels:" fields when present, and its tokens.
CommentLgtm ==
  [id |-> "lgtm", phrases |-> {}, summary |-> None, type |-> None,
   labels |-> None, words |-> {"lgtm"}]

CommentCreate ==
  [id |-> "create jira", phrases |-> {"create jira"}, summary |-> None,
   type |-> None, labels |-> None, words |-> {"create", "jira"}]

CommentSummary ==
  [id |-> "jira issue summary: login bug type: bug",
   phrases |-> {"jira issue"}, summary |-> Some({"login", "bug"}),
   type |-> Some("bug"), labels |-> None,
   words |-> {"jira", "issue", "summary", "login", "bug", "type"}]

Comments == {CommentLgtm, CommentCreate, CommentSummary}

\* The pull requests of the repository; any other number does not exist.
PullRequest(n) ==
  IF n = 1 THEN Some([number |-> 1, title |-> {"login", "bug"}, body |-> None])
  ELSE IF n = 2
       THEN Some([number |-> 2, title |-> {"docs"}, body |-> Some({"update", "docs"})])
       ELSE None

PRNumbers == {1, 3}

----------------------------------------------------------------------------
(* Trigger classifier: github_client.py *)

\* any(re.search(trigger, comment_lower) for trigger in triggers)
is_create_jira_comment(comment) ==
  \E trigger \in Triggers : trigger \in comment.phrases

\* str.title() on the matched issue type; the pattern ignores case, so the
\* match has the case of the comment
Title(t) ==
  CASE t \in {"bug", "Bug", "BUG"} -> "Bug"
    [] t \in {"task", "Task", "TASK"} -> "Task"
    [] t \in {"story", "Story", "STORY"} -> "Story"
    [] t \in {"epic", "Epic", "EPIC"} -> "Epic"

\* A captured line is a sequence of pieces: words, " " and ",".
\* str.split(sep): the runs of pieces between the separators, empty runs
\* included
RECURSIVE Split(_, _)
Split(pieces, sep) ==
  IF \A k \in 1..Len(pieces) : pieces[k] # sep THEN <<pieces>>
  ELSE LET k == CHOOSE j \in 1..Len(pieces) :
                  pieces[j] = sep /\ \A h \in 1..(j - 1) : pieces[h] # sep
       IN <<SubSeq(pieces, 1, k - 1)>> \o Split(SubSeq(pieces, k + 1, Len(pieces)), sep)

\* a label that keeps the blanks around it
Unstripped(pieces) == pieces

\* str.strip(): without the blanks at both ends
RECURSIVE Strip(_)
Strip(pieces) ==
  IF pieces = <<>> THEN <<>>
  ELSE IF Head(pieces) = " " THEN Strip(Tail(pieces))
  ELSE IF pieces[Len(pieces)] = " " THEN Strip(SubSeq(pieces, 1, Len(pieces) - 1))
  ELSE pieces

\* the string the pieces spell
RECURSIVE Spell(_)
Spell(pieces) == IF pieces = <<>> THEN "" ELSE Head(pieces) \o Spell(Tail(pieces))

\* [label.strip() for label in labels_match.group(1).split(',')]
custom_labels(captured) ==
  LET runs == Split(captured, ",")
  IN [k \in 1..Len(runs) |-> Spell(Strip(runs[k]))]

\* a description that has every block, an empty one where the pull request
\* gives nothing
description_parts_placeholders(comment, pr_title, pr_body, pr_number) ==
  <<[part |-> "preamble", words |-> {"created"}],
    [part |-> "original",
     words |-> IF IsNone(pr_number) THEN {} ELSE {"original"} \cup pr_title],
    [part |-> "description",
     words |-> IF IsNone(pr_body) THEN {} ELSE {"description"} \cup Get(pr_body)],
    [part |-> "comment", words |-> {"comment"} \cup comment.words]>>

\* description_parts: the preamble, the link to the pull request "if
\* pr_number", the body "if pr_body", the comment; a number 0 and an empty
\* body are false
description_parts(comment, pr_title, pr_body, pr_number) ==
  <<[part |-> "preamble", words |-> {"created"}]>>
    \o (IF IsNone(pr_number) \/ Get(pr_number) = 0 THEN <<>>
        ELSE <<[part |-> "original", words |-> {"original"} \cup pr_title]>>)
    \o (IF IsNone(pr_body) \/ Get(pr_body) = {} THEN <<>>
        ELSE <<[part |-> "description", words |-> {"description"} \cup Get(pr_body)]>>)
    \o <<[part |-> "comment", words |-> {"comment"} \cup comment.words]>>

\* extract_jira_details(comment, pr_title, pr_body, pr_number); pr_number is
\* an Optional here, as in the signature; the description is the parts in
\* the order "\n".join puts them
extract_jira_details(comment, pr_title, pr_body, pr_number) ==
  LET summary == IF IsNone(comment.summary)
                 THEN {"github", "pr"} \cup pr_title
                 ELSE Get(comment.summary)
      issue_type == IF IsNone(comment.type) THEN "Task" ELSE Title(Get(comment.type))
      labels == <<"github-pr">>
                  \o (IF IsNone(comment.labels) THEN <<>>
                      ELSE custom_labels(Get(comment.labels)))
      description == description_parts(comment, pr_title, pr_body, pr_number)
  IN [summary |-> summary, description |-> description,
      issue_type |-> issue_type, labels |-> labels]

\* the tokens of a description
RECURSIVE DescriptionWords(_)
DescriptionWords(description) ==
  IF description = <<>> THEN {}
  ELSE Head(description).words \cup DescriptionWords(Tail(description))

\* search_text = f"{jira_details['summary']} {jira_details['description']}"
SearchText(details) == details.summary \cup DescriptionWords(details.description)

----------------------------------------------------------------------------
(* Scorer: jira_client.py *)

\* the tokens of a label list joined by spaces ("github-pr" is read as the
\* two tokens github and pr)
RECURSIVE LabelWords(_)
LabelWords(labels) ==
  IF labels = <<>> THEN {}
  ELSE (IF Head(labels) = "github-pr" THEN {"github", "pr"} ELSE {Head(labels)})
         \cup LabelWords(Tail(labels))

\* fuzz.token_sort_ratio of the fuzzywuzzy library, a percentage that does
\* not depend on the order of the tokens: here the overlap of the token sets
token_sort_ratio(a, b) ==
  IF a = {} \/ b = {} THEN 0
  ELSE (200 * Cardinality(a \cap b)) \div (Cardinality(a) + Cardinality(b))

summary_score(search_text, issue) == token_sort_ratio(search_text, issue.summary)

\* a description score that falls back on the summary of an issue without
\* a description
description_score_or_summary(search_text, issue) ==
  IF IsNone(issue.description) \/ Get(issue.description) = {}
  THEN token_sort_ratio(search_text, issue.summary)
  ELSE token_sort_ratio(search_text, Get(issue.description))

description_score(search_text, issue) ==
  IF IsNone(issue.description) \/ Get(issue.description) = {} THEN 0
  ELSE token_sort_ratio(search_text, Get(issue.description))

labels_score(search_text, issue) ==
  IF issue.labels = <<>> THEN 0
  ELSE token_sort_ratio(search_text, LabelWords(issue.labels))

\* a combined score that is not capped at 1.0
combined_score_uncapped(search_text, issue) ==
  WSummary * summary_score(search_text, issue)
    + WDescription * description_score(search_text, issue)
    + WLabels * labels_score(search_text, issue)

\* (summary_score * 0.7) + (description_score * 0.3) + (labels_score * 0.2),
\* then min(combined_score, 1.0); in thousandths
combined_score(search_text, issue) ==
  Min(WSummary * summary_score(search_text, issue)
        + WDescription * description_score(search_text, issue)
        + WLabels * labels_score(search_text, issue),
      1000)

\* matched fields that name the summary when no field reaches the threshold
matched_fields_or_summary(search_text, issue, threshold) ==
  LET fields ==
        (IF 10 * summary_score(search_text, issue) >= threshold
         THEN <<"summary">> ELSE <<>>)
          \o (IF 10 * description_score(search_text, issue) >= threshold
              THEN <<"description">> ELSE <<>>)
          \o (IF 10 * labels_score(search_text, issue) >= threshold
              THEN <<"labels">> ELSE <<>>)
  IN IF fields = <<>> THEN <<"summary">> ELSE fields

matched_fields(search_text, issue, threshold) ==
  (IF 10 * summary_score(search_text, issue) >= threshold THEN <<"summary">> ELSE <<>>)
    \o (IF 10 * description_score(search_text, issue) >= threshold
        THEN <<"description">> ELSE <<>>)
    \o (IF 10 * labels_score(search_text, issue) >= threshold THEN <<"labels">> ELSE <<>>)

\* the loop of find_similar_issues: the results in cache order
RECURSIVE ScoreAll(_, _, _)
ScoreAll(cache, search_text, threshold) ==
  IF cache = <<>> THEN <<>>
  ELSE LET issue == Head(cache)
           rest == ScoreAll(Tail(cache), search_text, threshold)
       IN IF combined_score(search_text, issue) >= threshold
          THEN <<[score |-> combined_score(search_text, issue), issue |-> issue,
                  matched_fields |-> matched_fields(search_text, issue, threshold)]>>
                 \o rest
          ELSE rest

\* an insertion that puts a result before the results of equal score
RECURSIVE InsertSortedBeforeEqual(_, _)
InsertSortedBeforeEqual(r, sorted) ==
  IF sorted = <<>> THEN <<r>>
  ELSE IF Head(sorted).score > r.score
       THEN <<Head(sorted)>> \o InsertSortedBeforeEqual(r, Tail(sorted))
       ELSE <<r>> \o sorted

\* where a result goes in a list sorted by score descending, behind the
\* results of equal score (list.sort is stable, also with reverse=True)
RECURSIVE InsertSorted(_, _)
InsertSorted(r, sorted) ==
  IF sorted = <<>> THEN <<r>>
  ELSE IF Head(sorted).score >= r.score
       THEN <<Head(sorted)>> \o InsertSorted(r, Tail(sorted))
       ELSE <<r>> \o sorted

\* results.sort(key=lambda x: x.score, reverse=True)
RECURSIVE SortByScoreDesc(_)
SortByScoreDesc(results) ==
  IF results = <<>> THEN <<>>
  ELSE LET n == Len(results)
       IN InsertSorted(results[n], SortByScoreDesc(SubSeq(results, 1, n - 1)))

find_similar_issues(cache, search_text, threshold) ==
  IF cache = <<>> THEN <<>>
  ELSE SortByScoreDesc(ScoreAll(cache, search_text, threshold))

----------------------------------------------------------------------------
(* Issue cache: jira_client.py *)

\* needs_sync that takes a cache that was never synced for fresh
needs_sync_unless_never(sync, t) ==
  IF IsNone(sync) THEN FALSE ELSE Get(sync) < t - SyncWindow

\* needs_sync that takes a sync exactly five minutes old for stale
needs_sync_at_window(sync, t) ==
  IF IsNone(sync) THEN TRUE ELSE Get(sync) <= t - SyncWindow

\* needs_sync with the clock reading t
needs_sync(sync, t) ==
  IF IsNone(sync) THEN TRUE ELSE Get(sync) < t - SyncWindow

\* sync_issues that adds the fetched issues to the cached ones
sync_issues_appended ==
  /\ issues' = issues \o upstream
  /\ last_sync' = Some(now)

\* sync_issues that keeps the cached issues the search did not return
sync_issues_merged ==
  /\ issues' = upstream \o SelectSeq(issues, LAMBDA i :
                                       \A k \in 1..Len(upstream) : upstream[k] # i)
  /\ last_sync' = Some(now)

\* an assignment that puts the fetched list before the cached one
store_synced_prepended(fetched) ==
  /\ issues' = fetched \o issues
  /\ last_sync' = Some(now)

\* an assignment that extends the cached list by the fetched one
store_synced_extended(fetched) ==
  /\ issues' = issues \o fetched
  /\ last_sync' = Some(now)

\* the two assignments that end sync_issues: self.issues is bound to the
\* list built from the search result, self.last_sync to the clock
store_synced(fetched) ==
  /\ issues' = fetched
  /\ last_sync' = Some(now)

\* sync_issues, when the search succeeds: the cache is replaced by the
\* issues of the project and the time of the sync is recorded
sync_issues == store_synced(upstream)

\* the issue Jira returns for a creation request: jira.create_issue, then
\* jira.issue(key) and _transform_jira_issue
CreatedIssue(request, n) ==
  [key |-> <<"NEW", n>>, summary |-> request.summary,
   description |-> Some(request.description), labels |-> request.labels]

\* create_issue that puts the new issue at the end of the cache
create_issue_appended(request) ==
  LET transformed_issue == CreatedIssue(request, created + 1)
  IN /\ upstream' = <<transformed_issue>> \o upstream
     /\ issues' = Append(issues, transformed_issue)
     /\ created' = created + 1

\* create_issue that leaves the cache out
create_issue_uncached(request) ==
  LET transformed_issue == CreatedIssue(request, created + 1)
  IN /\ upstream' = <<transformed_issue>> \o upstream
     /\ issues' = issues
     /\ created' = created + 1

\* create_issue(request), when it succeeds: the issue is created in the
\* project, fetched, and put at the front of the cache
create_issue(request) ==
  LET transformed_issue == CreatedIssue(request, created + 1)
  IN /\ upstream' = <<transformed_issue>> \o upstream
     /\ issues' = <<transformed_issue>> \o issues
     /\ created' = created + 1

\* CreateJiraIssueRequest(...) of _process_pr_comment_for_jira
CreateRequest(details) ==
  [summary |-> details.summary, description |-> DescriptionWords(details.description),
   issue_type |-> details.issue_type, project_key |-> "PROJ",
   labels |-> details.labels]

\* the issues of the Jira project before the server starts
SearchTextOf(comment, n) ==
  LET pr == Get(PullRequest(n))
  IN SearchText(extract_jira_details(comment, pr.title, pr.body, Some(pr.number)))

IssueA ==
  [key |-> <<"PROJ", 1>>, summary |-> SearchTextOf(CommentCreate, 1), description |-> None,
   labels |-> <<>>]

IssueB ==
  [key |-> <<"PROJ", 2>>, summary |-> {"docs"}, description |-> Some({"update", "docs"}),
   labels |-> <<"docs">>]

IssueC ==
  [key |-> <<"PROJ", 3>>, summary |-> SearchTextOf(CommentCreate, 1),
   description |-> Some(SearchTextOf(CommentCreate, 1)), labels |-> <<"github-pr">>]

UpstreamChoices == {<<>>, <<IssueB>>, <<IssueA, IssueC>>}

----------------------------------------------------------------------------
(* Webhook ingress: webhook_server.py *)

\* config.github.webhook_secret
WebhookSecret == "secret"

\* Raw request bodies.  utf8: the bytes decode as UTF-8; json: the decoded
\* text is well-formed JSON, and then payload is the parsed value.
NoPayload ==
  [shape |-> "none", action |-> "", is_pr |-> FALSE, number |-> 0,
   comment |-> CommentLgtm, needs_jira |-> FALSE, title |-> {}]

\* an issue_comment payload: action, comment.body, issue.number and whether
\* the issue carries the key "pull_request"
CommentPayload(action, is_pr, number, comment) ==
  [shape |-> "comment", action |-> action, is_pr |-> is_pr, number |-> number,
   comment |-> comment, needs_jira |-> FALSE, title |-> {}]

\* a pull_request payload: action, pull_request.number, .title and whether
\* "needs-jira" is among its labels
PullRequestPayload(action, needs_jira, number) ==
  [shape |-> "pr", action |-> action, is_pr |-> TRUE, number |-> number,
   comment |-> CommentLgtm, needs_jira |-> needs_jira,
   title |-> IF IsNone(PullRequest(number)) THEN {"gone"}
             ELSE Get(PullRequest(number)).title]

\* a well-formed JSON value without the keys the handlers read, as {}
EmptyPayload == [NoPayload EXCEPT !.shape = "empty"]

Payloads ==
  {CommentPayload("created", TRUE, 1, c) : c \in Comments}
    \cup {CommentPayload("created", TRUE, 3, CommentCreate),
          CommentPayload("edited", TRUE, 1, CommentCreate),
          CommentPayload("created", FALSE, 1, CommentCreate)}
    \cup {PullRequestPayload("opened", TRUE, 1),
          PullRequestPayload("opened", FALSE, 1),
          PullRequestPayload("closed", TRUE, 1)}
    \cup {EmptyPayload}

BadUtf8Body == [utf8 |-> FALSE, json |-> FALSE, payload |-> NoPayload]

BadJsonBody == [utf8 |-> TRUE, json |-> FALSE, payload |-> NoPayload]

JsonBody(p) == [utf8 |-> TRUE, json |-> TRUE, payload |-> p]

Bodies == {BadUtf8Body, BadJsonBody} \cup {JsonBody(p) : p \in Payloads}

EventTypes == {"issue_comment", "pull_request", "push"}

\* mac.hexdigest(): the digest of a body under a key, one value per pair
HmacHex(key, body) == <<"hmac-sha256", key, body>>

\* f"sha256={mac.hexdigest()}"
ExpectedSignature(body) == <<"sha256=", HmacHex(WebhookSecret, body)>>

\* a signature with one character changed: the character at place at is
\* now the one with code point char (not the one that was there)
Flipped(signature, at, char) == Append(signature, <<at, char>>)

\* the signature of the body with one character changed: the first of the
\* prefix to "S" or to a character outside ASCII, the first of the digest to
\* "g" or to a character outside ASCII (Starlette decodes the header bytes
\* as latin-1)
FlippedSignaturesFor(body) ==
  {Flipped(ExpectedSignature(body), 1, 83), Flipped(ExpectedSignature(body), 1, 233),
   Flipped(ExpectedSignature(body), 8, 103), Flipped(ExpectedSignature(body), 8, 233)}

\* the values of the x-hub-signature-256 header that are not the signature
\* of the body: absent, empty, made with another secret, made for another
\* body, with a character outside ASCII
BadSignaturesFor(body) ==
  {None, Some(<<>>), Some(<<"sha256=", HmacHex("other", body)>>),
   Some(ExpectedSignature([body EXCEPT !.utf8 = ~body.utf8])),
   Some(Flipped(ExpectedSignature(body), 8, 233))}

\* the requests sent to POST /webhook: every body under every event type
\* with its signature, and three of the bodies with each bad signature
WebhookRequests ==
  {[body |-> b, signature |-> Some(ExpectedSignature(b)), event_type |-> e] :
     b \in Bodies, e \in EventTypes}
    \cup UNION {{[body |-> b, signature |-> g, event_type |-> "issue_comment"] :
                   g \in BadSignaturesFor(b)} :
                b \in {BadUtf8Body, BadJsonBody,
                       JsonBody(CommentPayload("created", TRUE, 1, CommentCreate))}}

\* every character of the string is an ASCII character
IsAscii(signature) == Len(signature) < 3 \/ signature[3][2] < 128

\* hmac.compare_digest(a, b) on two str: TypeError when one of them has a
\* character outside ASCII, else whether they are equal
compare_digest(a, b) ==
  IF ~IsAscii(a) \/ ~IsAscii(b) THEN "TypeError"
  ELSE IF a = b THEN "True" ELSE "False"

\* _verify_signature that accepts the digest of the body under any key
verify_signature_call_any_key(payload, signature) ==
  IF IsNone(signature) \/ Get(signature) = <<>> THEN "False"
  ELSE IF ~IsAscii(Get(signature)) THEN "TypeError"
  ELSE IF /\ Len(Get(signature)) = 2
          /\ Get(signature)[1] = "sha256="
          /\ Get(signature)[2][3] = payload
       THEN "True" ELSE "False"

\* the call _verify_signature(payload, signature): what it returns, or the
\* exception it raises
verify_signature_call(payload, signature) ==
  IF IsNone(signature) \/ Get(signature) = <<>> THEN "False"
  ELSE compare_digest(ExpectedSignature(payload), Get(signature))

\* _verify_signature that only checks that a signature was sent
verify_signature_present(payload, signature) ==
  ~(IsNone(signature) \/ Get(signature) = <<>>)

\* _verify_signature(payload, signature) returned True
verify_signature(payload, signature) ==
  verify_signature_call(payload, signature) = "True"

\* the try block of github_webhook: the exception it raises, "" for none
github_webhook_try(body, signature) ==
  IF verify_signature_call(body, signature) = "TypeError" THEN "TypeError"
  ELSE IF ~verify_signature(body, signature) THEN "HTTPException(401)"
  ELSE IF ~body.utf8 THEN "UnicodeDecodeError"
  ELSE IF ~body.json THEN "JSONDecodeError"
  ELSE ""

\* the except clauses of github_webhook: the status of the response.
\* HTTPException is an Exception, so the clause "except Exception" also
\* takes the HTTPException(401) raised in the try block.
github_webhook_status(exc) ==
  IF exc = "" THEN 200
  ELSE IF exc = "JSONDecodeError" THEN 400
  ELSE 500

----------------------------------------------------------------------------
(* State *)

\* no HTTP exchange yet.  raised: the exception of the try block of
\* github_webhook; status: the status of the response, 0 before it is sent;
\* parsed: json.loads ran on the body; scheduled: add_task was called;
\* detail: the body of the response of the manual trigger
NoHttp ==
  [endpoint |-> "none", body |-> BadJsonBody,
   signature |-> None, event_type |-> "", raised |-> "", status |-> 0,
   parsed |-> FALSE, scheduled |-> FALSE, detail |-> ""]

\* no background task.  logged: the error the except clause of
\* _handle_webhook_event logged; escaped: an exception left the task
NoTask ==
  [state |-> "none", event_type |-> "", payload |-> NoPayload, logged |-> "",
   escaped |-> FALSE]

\* no invocation of _process_pr_comment_for_jira.  pc: the place in the
\* method; needed_sync: what needs_sync() returned; matches: similar_issues;
\* error: the exception caught by the except clause; comment_error: the
\* failure of the error comment; calls: the calls made so far
NoInv ==
  [pc |-> "idle", caller |-> "none", pr_number |-> 0, comment |-> CommentLgtm,
   threshold |-> DefaultThreshold, details |-> None, needed_sync |-> None,
   matches |-> <<>>, new_issue |-> None, error |-> "", comment_error |-> "",
   result |-> None, calls |-> <<>>, issues0 |-> <<>>, last_sync0 |-> None]

\* the entry of _process_pr_comment_for_jira(pr_number, comment), called by
\* caller; issues0 and last_sync0 record the cache at the call
Invoke(caller, pr_number, comment) ==
  [NoInv EXCEPT !.pc = "start", !.caller = caller, !.pr_number = pr_number,
                !.comment = comment, !.issues0 = issues, !.last_sync0 = last_sync]

\* one collaborator call in the log of an invocation
Call(op, ok, arg) == [op |-> op, ok |-> ok, arg |-> arg]

NoArg == <<"", 0>>

\* WebhookServer.__init__ and JiraClient.__init__: an empty cache that was
\* never synced; the Jira project holds some issues already
Init ==
  /\ srv = "boot"
  /\ now = 0
  /\ issues = <<>>
  /\ last_sync = None
  /\ upstream \in UpstreamChoices
  /\ created = 0
  /\ http = NoHttp
  /\ task = NoTask
  /\ inv = NoInv

\* the server is idle: it takes the next request
Quiescent ==
  /\ srv = "serving"
  /\ http = NoHttp
  /\ task = NoTask
  /\ inv = NoInv

\* an exchange is over: the response was sent and the background task, if
\* any, has finished
Finished ==
  /\ http.endpoint # "none"
  /\ http.status # 0
  /\ task.state \in {"none", "finished"}
  /\ inv.pc \in {"idle", "returned", "raised"}

----------------------------------------------------------------------------
(* The clock and server start *)

Tick ==
  /\ now < MaxTime
  /\ now' = now + 1
  /\ UNCHANGED <<srv, issues, last_sync, upstream, created, http, task, inv>>

\* WebhookServer.start: the initial sync succeeds
StartSynced ==
  /\ srv = "boot"
  /\ srv' = "serving"
  /\ sync_issues
  /\ UNCHANGED <<now, upstream, created, http, task, inv>>

\* a start whose failed sync still stamps the time of the sync
StartUnsyncedStamped ==
  /\ srv = "boot"
  /\ srv' = "serving"
  /\ last_sync' = Some(now)
  /\ UNCHANGED <<now, issues, upstream, created, http, task, inv>>

\* WebhookServer.start: the initial sync fails, which is logged
StartUnsynced ==
  /\ srv = "boot"
  /\ srv' = "serving"
  /\ UNCHANGED <<now, issues, last_sync, upstream, created, http, task, inv>>

\* the exchange that is over is forgotten; the cache stays
Idle ==
  /\ Finished
  /\ http' = NoHttp
  /\ task' = NoTask
  /\ inv' = NoInv
  /\ UNCHANGED <<srv, now, issues, last_sync, upstream, created>>

----------------------------------------------------------------------------
(* POST /webhook *)

\* github_webhook: verify, parse, schedule the background task, respond
github_webhook(body, signature, event_type) ==
  LET exc == github_webhook_try(body, signature)
  IN /\ http' = [NoHttp EXCEPT !.endpoint = "webhook", !.body = body,
                               !.signature = signature, !.event_type = event_type,
                               !.raised = exc,
                               !.status = github_webhook_status(exc),
                               !.parsed = exc \in {"", "JSONDecodeError"},
                               !.scheduled = (exc = "")]
     /\ task' = IF exc = ""
                THEN [NoTask EXCEPT !.state = "scheduled", !.event_type = event_type,
                                    !.payload = body.payload]
                ELSE NoTask
     /\ inv' = NoInv

WebhookRequest ==
  /\ Quiescent
  /\ \E request \in WebhookRequests :
       github_webhook(request.body, request.signature, request.event_type)
  /\ UNCHANGED <<srv, now, issues, last_sync, upstream, created>>
----------------------------------------------------------------------------
(* The background task: _handle_webhook_event *)

\* the comment _handle_pull_request synthesizes for a labelled pull request:
\* "Auto-triggered: Create Jira issue for this PR\n\nType: Task\nSummary: <title>"
AutoComment(title) ==
  [id |-> "auto-triggered", phrases |-> {"create jira", "jira issue"},
   summary |-> Some(title), type |-> Some("task"), labels |-> None,
   words |-> {"create", "jira", "issue", "summary", "type", "task"} \cup title]

\* _handle_issue_comment that hands on every new comment on a pull request
handle_issue_comment_unfiltered(payload) ==
  IF payload.shape \notin {"comment", "pr"} THEN "KeyError"
  ELSE IF payload.action # "created" THEN "return"
  ELSE IF payload.shape # "comment" THEN "KeyError"
  ELSE IF ~payload.is_pr THEN "return"
  ELSE "call"

\* _handle_issue_comment that takes a comment on any issue
handle_issue_comment_any_issue(payload) ==
  IF payload.shape \notin {"comment", "pr"} THEN "KeyError"
  ELSE IF payload.action # "created" THEN "return"
  ELSE IF payload.shape # "comment" THEN "KeyError"
  ELSE IF is_create_jira_comment(payload.comment) THEN "call"
  ELSE "return"

\* _handle_issue_comment(payload): "KeyError" when a key it reads is
\* missing, "call" when it calls _process_pr_comment_for_jira, else "return"
handle_issue_comment(payload) ==
  IF payload.shape \notin {"comment", "pr"} THEN "KeyError"
  ELSE IF payload.action # "created" THEN "return"
  ELSE IF payload.shape # "comment" THEN "KeyError"
  ELSE IF ~payload.is_pr THEN "return"
  ELSE IF is_create_jira_comment(payload.comment) THEN "call"
  ELSE "return"

\* _handle_pull_request that takes every opened pull request
handle_pull_request_any_label(payload) ==
  IF payload.shape # "pr" THEN "KeyError"
  ELSE IF payload.action = "opened" THEN "call"
  ELSE "return"

\* _handle_pull_request(payload), likewise
handle_pull_request(payload) ==
  IF payload.shape # "pr" THEN "KeyError"
  ELSE IF payload.action = "opened" /\ payload.needs_jira THEN "call"
  ELSE "return"

\* _handle_webhook_event that hands every other event type to
\* _handle_issue_comment
DispatchOthersAsComments(event_type, payload) ==
  IF event_type = "pull_request" THEN handle_pull_request(payload)
  ELSE handle_issue_comment(payload)

\* the branch _handle_webhook_event takes for an event type
Dispatch(event_type, payload) ==
  IF event_type = "issue_comment" THEN handle_issue_comment(payload)
  ELSE IF event_type = "pull_request" THEN handle_pull_request(payload)
  ELSE "return"

\* the comment text handed to _process_pr_comment_for_jira
DispatchComment(event_type, payload) ==
  IF event_type = "issue_comment" THEN payload.comment ELSE AutoComment(payload.title)

\* the task starts and its handler returns at once
TaskReturns ==
  /\ task.state = "scheduled"
  /\ Dispatch(task.event_type, task.payload) = "return"
  /\ task' = [task EXCEPT !.state = "finished"]
  /\ UNCHANGED <<srv, now, issues, last_sync, upstream, created, http, inv>>

\* the task starts and its handler fails on the payload: caught and logged
\* by the except clause of _handle_webhook_event
TaskBadPayload ==
  /\ task.state = "scheduled"
  /\ Dispatch(task.event_type, task.payload) = "KeyError"
  /\ task' = [task EXCEPT !.state = "finished", !.logged = "KeyError"]
  /\ UNCHANGED <<srv, now, issues, last_sync, upstream, created, http, inv>>

\* the task starts and its handler calls _process_pr_comment_for_jira
TaskCalls ==
  /\ task.state = "scheduled"
  /\ Dispatch(task.event_type, task.payload) = "call"
  /\ task' = [task EXCEPT !.state = "running"]
  /\ inv' = Invoke("webhook", task.payload.number,
                   DispatchComment(task.event_type, task.payload))
  /\ UNCHANGED <<srv, now, issues, last_sync, upstream, created, http>>

\* _handle_webhook_event without its except clause
handle_webhook_event_end_uncaught(t, i) ==
  [t EXCEPT !.state = "finished", !.escaped = (i.pc = "raised")]

\* what _handle_webhook_event does with the end of the call: a result is
\* dropped, an exception is caught and logged
handle_webhook_event_end(t, i) ==
  [t EXCEPT !.state = "finished",
            !.logged = IF i.pc = "raised" THEN i.error ELSE ""]

TaskEnds ==
  /\ task.state = "running"
  /\ inv.pc \in {"returned", "raised"}
  /\ task' = handle_webhook_event_end(task, inv)
  /\ UNCHANGED <<srv, now, issues, last_sync, upstream, created, http, inv>>

----------------------------------------------------------------------------
(* POST /trigger-jira-creation *)

\* manual_trigger(pr_number, comment): calls _process_pr_comment_for_jira
\* with no signature check
ManualTrigger ==
  /\ Quiescent
  /\ \E pr_number \in PRNumbers, comment \in Comments :
       inv' = Invoke("manual", pr_number, comment)
  /\ http' = [NoHttp EXCEPT !.endpoint = "manual"]
  /\ task' = NoTask
  /\ UNCHANGED <<srv, now, issues, last_sync, upstream, created>>

\* manual_trigger that answers 200 whatever the procedure did
manual_trigger_response_ok(h, i) ==
  [h EXCEPT !.status = 200,
            !.detail = IF i.pc = "returned" THEN Get(i.result).action ELSE i.error]

\* the response of manual_trigger: result.__dict__, or HTTPException(500,
\* detail=str(error))
manual_trigger_response(h, i) ==
  IF i.pc = "returned"
  THEN [h EXCEPT !.status = 200, !.detail = Get(i.result).action]
  ELSE [h EXCEPT !.status = 500, !.detail = i.error]

ManualResponds ==
  /\ http.endpoint = "manual"
  /\ http.status = 0
  /\ inv.pc \in {"returned", "raised"}
  /\ http' = manual_trigger_response(http, inv)
  /\ UNCHANGED <<srv, now, issues, last_sync, upstream, created, task, inv>>
----------------------------------------------------------------------------
(* _process_pr_comment_for_jira, step by step *)

Log(i, call) == [i EXCEPT !.calls = Append(i.calls, call)]

\* an exception that no except clause of the method takes
FailUncaught(i, error) == [i EXCEPT !.pc = "raised", !.error = error]

\* an exception after which the step is tried again
FailAndRetry(i, error) == [i EXCEPT !.error = error]

\* an exception inside the try block: control goes to the except clause
Fail(i, error) == [i EXCEPT !.pc = "error_comment", !.error = error]

\* ProcClassify without the early return
ProcClassifyNoSkip ==
  /\ inv.pc = "start"
  /\ inv' = [inv EXCEPT !.pc = "get_pr"]
  /\ UNCHANGED <<srv, now, issues, last_sync, upstream, created, http, task>>

\* the check of the comment: a comment that asks for nothing is "skipped"
ProcClassify ==
  /\ inv.pc = "start"
  /\ inv' = IF ~is_create_jira_comment(inv.comment)
            THEN [inv EXCEPT !.pc = "returned",
                             !.result = Some([action |-> "skipped", issue |-> None,
                                              similarity |-> 0])]
            ELSE [inv EXCEPT !.pc = "get_pr"]
  /\ UNCHANGED <<srv, now, issues, last_sync, upstream, created, http, task>>

\* get_pull_request returns the pull request; extract_jira_details follows
ProcGetPullRequest ==
  /\ inv.pc = "get_pr"
  /\ ~IsNone(PullRequest(inv.pr_number))
  /\ LET pr == Get(PullRequest(inv.pr_number))
     IN inv' = [Log(inv, Call("get_pull_request", TRUE, NoArg))
                  EXCEPT !.pc = "check_sync",
                         !.details = Some(extract_jira_details(
                                       inv.comment, pr.title, pr.body, Some(pr.number)))]
  /\ UNCHANGED <<srv, now, issues, last_sync, upstream, created, http, task>>

\* a missing pull request taken for nothing to do: "skipped" is returned
ProcPullRequestMissingSkipped ==
  /\ inv.pc = "get_pr"
  /\ inv' = [Log(inv, Call("get_pull_request", FALSE, NoArg))
               EXCEPT !.pc = "returned",
                      !.result = Some([action |-> "skipped", issue |-> None,
                                       similarity |-> 0])]
  /\ UNCHANGED <<srv, now, issues, last_sync, upstream, created, http, task>>

\* get_pull_request returns None (no such pull request, or the API call
\* failed): "Pull request #n not found" is raised
ProcPullRequestMissing ==
  /\ inv.pc = "get_pr"
  /\ inv' = Fail(Log(inv, Call("get_pull_request", FALSE, NoArg)), "pr_not_found")
  /\ UNCHANGED <<srv, now, issues, last_sync, upstream, created, http, task>>

\* needs_sync() is false: no sync
ProcFresh ==
  /\ inv.pc = "check_sync"
  /\ ~needs_sync(last_sync, now)
  /\ inv' = [inv EXCEPT !.pc = "find", !.needed_sync = Some(FALSE)]
  /\ UNCHANGED <<srv, now, issues, last_sync, upstream, created, http, task>>

\* needs_sync() is true and sync_issues succeeds
ProcSync ==
  /\ inv.pc = "check_sync"
  /\ needs_sync(last_sync, now)
  /\ sync_issues
  /\ inv' = [Log(inv, Call("sync_issues", TRUE, NoArg))
               EXCEPT !.pc = "find", !.needed_sync = Some(TRUE)]
  /\ UNCHANGED <<srv, now, upstream, created, http, task>>

\* a sync_issues that stamps the time of the sync before it fetches
ProcSyncFailsStamped ==
  /\ inv.pc = "check_sync"
  /\ needs_sync(last_sync, now)
  /\ last_sync' = Some(now)
  /\ inv' = [Fail(Log(inv, Call("sync_issues", FALSE, NoArg)), "sync_failed")
               EXCEPT !.needed_sync = Some(TRUE)]
  /\ UNCHANGED <<srv, now, issues, upstream, created, http, task>>

\* needs_sync() is true and sync_issues raises: the cache is as it was
ProcSyncFails ==
  /\ inv.pc = "check_sync"
  /\ needs_sync(last_sync, now)
  /\ inv' = [Fail(Log(inv, Call("sync_issues", FALSE, NoArg)), "sync_failed")
               EXCEPT !.needed_sync = Some(TRUE)]
  /\ UNCHANGED <<srv, now, issues, last_sync, upstream, created, http, task>>

\* find_similar_issues(search_text, threshold) on the cache
ProcFindSimilar ==
  /\ inv.pc = "find"
  /\ LET similar_issues ==
           find_similar_issues(issues, SearchText(Get(inv.details)), inv.threshold)
     IN inv' = [Log(inv, Call("find_similar_issues", TRUE, NoArg))
                  EXCEPT !.pc = IF similar_issues # <<>> THEN "post_similar" ELSE "create",
                         !.matches = similar_issues]
  /\ UNCHANGED <<srv, now, issues, last_sync, upstream, created, http, task>>

\* best_match taken from the end of the list
best_match_last(similar_issues) == similar_issues[Len(similar_issues)]

\* best_match = similar_issues[0]
best_match(similar_issues) == similar_issues[1]

\* the comment about the existing issue is posted: "found_similar"
ProcPostSimilar ==
  /\ inv.pc = "post_similar"
  /\ LET best == best_match(inv.matches)
     IN inv' = [Log(inv, Call("add_comment:similar", TRUE, best.issue.key))
                  EXCEPT !.pc = "returned",
                         !.result = Some([action |-> "found_similar",
                                          issue |-> Some(best.issue),
                                          similarity |-> best.score])]
  /\ UNCHANGED <<srv, now, issues, last_sync, upstream, created, http, task>>

\* the comment about the existing issue fails
ProcPostSimilarFails ==
  /\ inv.pc = "post_similar"
  /\ inv' = Fail(Log(inv, Call("add_comment:similar", FALSE,
                               best_match(inv.matches).issue.key)),
                 "comment_failed")
  /\ UNCHANGED <<srv, now, issues, last_sync, upstream, created, http, task>>
\* create_issue succeeds; the new issue is in the project and in the cache
ProcCreate ==
  /\ inv.pc = "create"
  /\ created < MaxCreate
  /\ LET request == CreateRequest(Get(inv.details))
         new_issue == CreatedIssue(request, created + 1)
     IN /\ create_issue(request)
        /\ inv' = [Log(Log(inv, Call("create_issue", TRUE, new_issue.key)),
                       Call("cache_insert", TRUE, new_issue.key))
                     EXCEPT !.pc = "post_created", !.new_issue = Some(new_issue)]
  /\ UNCHANGED <<srv, now, last_sync, http, task>>

\* jira.create_issue raises: nothing is created
ProcCreateFails ==
  /\ inv.pc = "create"
  /\ inv' = Fail(Log(inv, Call("create_issue", FALSE, NoArg)), "create_failed")
  /\ UNCHANGED <<srv, now, issues, last_sync, upstream, created, http, task>>

\* jira.create_issue succeeds and the fetch of the created issue (or its
\* transformation) raises: the issue exists in the project, not in the cache
ProcCreateFetchFails ==
  /\ inv.pc = "create"
  /\ created < MaxCreate
  /\ LET new_issue == CreatedIssue(CreateRequest(Get(inv.details)), created + 1)
     IN /\ upstream' = <<new_issue>> \o upstream
        /\ created' = created + 1
        /\ inv' = Fail(Log(inv, Call("create_issue", FALSE, new_issue.key)),
                       "create_failed")
  /\ UNCHANGED <<srv, now, issues, last_sync, http, task>>

\* the comment about the created issue is posted: "created"
ProcPostCreated ==
  /\ inv.pc = "post_created"
  /\ inv' = [Log(inv, Call("add_comment:created", TRUE, Get(inv.new_issue).key))
               EXCEPT !.pc = "returned",
                      !.result = Some([action |-> "created", issue |-> inv.new_issue,
                                       similarity |-> 0])]
  /\ UNCHANGED <<srv, now, issues, last_sync, upstream, created, http, task>>

\* a failure of the comment that takes the new issue out of the cache again
ProcPostCreatedFailsRolledBack ==
  /\ inv.pc = "post_created"
  /\ issues' = Tail(issues)
  /\ inv' = Fail(Log(inv, Call("add_comment:created", FALSE, Get(inv.new_issue).key)),
                 "comment_failed")
  /\ UNCHANGED <<srv, now, last_sync, upstream, created, http, task>>

\* the comment about the created issue fails
ProcPostCreatedFails ==
  /\ inv.pc = "post_created"
  /\ inv' = Fail(Log(inv, Call("add_comment:created", FALSE, Get(inv.new_issue).key)),
                 "comment_failed")
  /\ UNCHANGED <<srv, now, issues, last_sync, upstream, created, http, task>>

\* an except clause that raises the failure of the error comment
reraise_secondary(i, comment_error) ==
  [i EXCEPT !.pc = "raised", !.comment_error = comment_error,
            !.error = IF comment_error # "" THEN comment_error ELSE i.error]

\* the end of the except clause: "raise error" raises the error that was
\* caught; comment_error, when the error comment failed, is only logged
reraise(i, comment_error) ==
  [i EXCEPT !.pc = "raised", !.comment_error = comment_error]

\* the except clause posts the error comment
ProcErrorComment ==
  /\ inv.pc = "error_comment"
  /\ inv' = reraise(Log(inv, Call("add_comment:error", TRUE, NoArg)), "")
  /\ UNCHANGED <<srv, now, issues, last_sync, upstream, created, http, task>>

\* the error comment fails too
ProcErrorCommentFails ==
  /\ inv.pc = "error_comment"
  /\ inv' = reraise(Log(inv, Call("add_comment:error", FALSE, NoArg)),
                    "error_comment_failed")
  /\ UNCHANGED <<srv, now, issues, last_sync, upstream, created, http, task>>

----------------------------------------------------------------------------
(* The specification *)

Next ==
  \/ Tick
  \/ StartSynced
  \/ StartUnsynced
  \/ Idle
  \/ WebhookRequest
  \/ TaskReturns
  \/ TaskBadPayload
  \/ TaskCalls
  \/ TaskEnds
  \/ ManualTrigger
  \/ ManualResponds
  \/ ProcClassify
  \/ ProcGetPullRequest
  \/ ProcPullRequestMissing
  \/ ProcFresh
  \/ ProcSync
  \/ ProcSyncFails
  \/ ProcFindSimilar
  \/ ProcPostSimilar
  \/ ProcPostSimilarFails
  \/ ProcCreate
  \/ ProcCreateFails
  \/ ProcCreateFetchFails
  \/ ProcPostCreated
  \/ ProcPostCreatedFails
  \/ ProcErrorComment
  \/ ProcErrorCommentFails

Spec == Init /\ [][Next]_vars
----------------------------------------------------------------------------
(* The cache used directly: the operations of JiraClient in any order, as   *)
(* the tools of mcp_server.py call them (sync_jira_issues,                  *)
(* create_jira_issue, find_similar_issues).  Here inv is the record of the  *)
(* last two operations, and the Jira project is also edited by others.      *)

\* one operation of the client.  at: the clock needs_sync read; fetched: the
\* list search_issues returned; issue: the issue create_issue returned;
\* matches: the list find_similar_issues returned; answer: the value of
\* needs_sync
NoOp ==
  [op |-> "", ok |-> TRUE, at |-> 0, fetched |-> <<>>, issue |-> None,
   matches |-> <<>>, answer |-> FALSE]

Op(op, ok) == [NoOp EXCEPT !.op = op, !.ok = ok]

\* no operation yet; issues0 and last_sync0 are the cache before the last
\* operation
NoOps == [ops |-> <<>>, issues0 |-> <<>>, last_sync0 |-> None]

\* the record after one more operation: the last operation and the one
\* before it
Record(op) ==
  [ops |-> (IF inv.ops = <<>> THEN <<>> ELSE <<inv.ops[Len(inv.ops)]>>) \o <<op>>,
   issues0 |-> issues, last_sync0 |-> last_sync]

LastOp == inv.ops[Len(inv.ops)]

\* the extractions the operations are called with
ClientDetails ==
  LET pr == Get(PullRequest(1))
  IN {extract_jira_details(c, pr.title, pr.body, Some(pr.number)) :
        c \in {CommentCreate, CommentSummary}}

\* JiraClient.__init__, with a Jira project that holds some issues
InitCache ==
  /\ srv = "client"
  /\ now = 0
  /\ issues = <<>>
  /\ last_sync = None
  /\ upstream \in UpstreamChoices
  /\ created = 0
  /\ http = NoHttp
  /\ task = NoTask
  /\ inv = NoOps

\* someone else edits the project: the issues behind those this client
\* created become another list
ProjectEdited ==
  /\ \E others \in UpstreamChoices :
       /\ upstream' = SubSeq(upstream, 1, created) \o others
       /\ upstream' # upstream
  /\ UNCHANGED <<srv, now, issues, last_sync, created, http, task, inv>>

\* sync_issues() returns
ClientSync ==
  /\ sync_issues
  /\ inv' = Record([Op("sync_issues", TRUE) EXCEPT !.fetched = upstream])
  /\ UNCHANGED <<srv, now, upstream, created, http, task>>

\* sync_issues() raises: search_issues or a transformation failed before
\* the assignment to self.issues
ClientSyncFails ==
  /\ inv' = Record(Op("sync_issues", FALSE))
  /\ UNCHANGED <<srv, now, issues, last_sync, upstream, created, http, task>>

\* create_issue(request) returns
ClientCreate ==
  /\ created < MaxCreate
  /\ \E details \in ClientDetails :
       LET request == CreateRequest(details)
       IN /\ create_issue(request)
          /\ inv' = Record([Op("create_issue", TRUE)
                              EXCEPT !.issue = Some(CreatedIssue(request, created + 1))])
  /\ UNCHANGED <<srv, now, last_sync, http, task>>

\* create_issue(request) raises at jira.create_issue
ClientCreateFails ==
  /\ inv' = Record(Op("create_issue", FALSE))
  /\ UNCHANGED <<srv, now, issues, last_sync, upstream, created, http, task>>

\* a find_similar_issues that synchronises the cache before it scores
ClientFindSyncing ==
  /\ sync_issues
  /\ \E details \in ClientDetails :
       inv' = Record([Op("find_similar_issues", TRUE)
                        EXCEPT !.matches = find_similar_issues(
                                 issues', SearchText(details), DefaultThreshold)])
  /\ UNCHANGED <<srv, now, upstream, created, http, task>>

\* find_similar_issues(search_text, threshold) returns
ClientFind ==
  /\ \E details \in ClientDetails :
       inv' = Record([Op("find_similar_issues", TRUE)
                        EXCEPT !.matches = find_similar_issues(
                                 issues, SearchText(details), DefaultThreshold)])
  /\ UNCHANGED <<srv, now, issues, last_sync, upstream, created, http, task>>

\* needs_sync() returns
ClientNeedsSync ==
  /\ inv' = Record([Op("needs_sync", TRUE)
                     EXCEPT !.at = now, !.answer = needs_sync(last_sync, now)])
  /\ UNCHANGED <<srv, now, issues, last_sync, upstream, created, http, task>>

NextCache ==
  \/ Tick
  \/ ProjectEdited
  \/ ClientSync
  \/ ClientSyncFails
  \/ ClientCreate
  \/ ClientCreateFails
  \/ ClientFind
  \/ ClientNeedsSync

SpecCache == InitCache /\ [][NextCache]_vars

----------------------------------------------------------------------------
(* Background tasks side by side.  The tasks of two webhook deliveries run  *)
(* on one event loop and share the JiraClient; here they are interleaved    *)
(* at every collaborator call, and sync_issues also between the search and  *)
(* the assignment of its result.  task is the sequence of the tasks; inv    *)
(* records the last assignment.                                             *)

\* a task that is not running.  fetched: the list its search returned
IdleTask == [pc |-> "idle", details |-> None, fetched |-> <<>>]

\* base: the list the last sync_issues to finish assigned
NoRace == [base |-> <<>>]

InitConc ==
  /\ srv = "serving"
  /\ now = 0
  /\ issues = <<>>
  /\ last_sync = None
  /\ upstream \in UpstreamChoices
  /\ created = 0
  /\ http = NoHttp
  /\ task = [i \in 1..MaxTasks |-> IdleTask]
  /\ inv = NoRace

\* a delivery is dispatched to _process_pr_comment_for_jira in task i; the
\* pull request is fetched and the details are extracted
ConcArrive(i) ==
  /\ task[i].pc = "idle"
  /\ \E details \in ClientDetails :
       task' = [task EXCEPT ![i] = [IdleTask EXCEPT !.pc = "check_sync",
                                                    !.details = Some(details)]]
  /\ UNCHANGED <<srv, now, issues, last_sync, upstream, created, http, inv>>

\* the task after find_similar_issues on a cache: with a match the comment
\* is posted and the task ends, with none the task goes on to create_issue
AfterFind(t, cache) ==
  IF find_similar_issues(cache, SearchText(Get(t.details)), DefaultThreshold) # <<>>
  THEN IdleTask
  ELSE [t EXCEPT !.pc = "create"]

\* needs_sync() is false; find_similar_issues follows with no call between
ConcFresh(i) ==
  /\ task[i].pc = "check_sync"
  /\ ~needs_sync(last_sync, now)
  /\ task' = [task EXCEPT ![i] = AfterFind(@, issues)]
  /\ UNCHANGED <<srv, now, issues, last_sync, upstream, created, http, inv>>

\* needs_sync() is true; search_issues returns the issues of the project
ConcFetch(i) ==
  /\ task[i].pc = "check_sync"
  /\ needs_sync(last_sync, now)
  /\ task' = [task EXCEPT ![i].pc = "store", ![i].fetched = upstream]
  /\ UNCHANGED <<srv, now, issues, last_sync, upstream, created, http, inv>>

\* needs_sync() is true; search_issues raises and the task ends
ConcFetchFails(i) ==
  /\ task[i].pc = "check_sync"
  /\ needs_sync(last_sync, now)
  /\ task' = [task EXCEPT ![i] = IdleTask]
  /\ UNCHANGED <<srv, now, issues, last_sync, upstream, created, http, inv>>

\* the list built from the search result is assigned to the cache;
\* find_similar_issues follows with no call between
ConcStore(i) ==
  /\ task[i].pc = "store"
  /\ store_synced(task[i].fetched)
  /\ task' = [task EXCEPT ![i] = AfterFind(@, issues')]
  /\ inv' = [inv EXCEPT !.base = task[i].fetched]
  /\ UNCHANGED <<srv, now, upstream, created, http>>

\* create_issue returns; the comment is posted and the task ends
ConcCreate(i) ==
  /\ task[i].pc = "create"
  /\ created < MaxCreate
  /\ create_issue(CreateRequest(Get(task[i].details)))
  /\ task' = [task EXCEPT ![i] = IdleTask]
  /\ UNCHANGED <<srv, now, last_sync, http, inv>>

\* create_issue raises and the task ends
ConcCreateFails(i) ==
  /\ task[i].pc = "create"
  /\ task' = [task EXCEPT ![i] = IdleTask]
  /\ UNCHANGED <<srv, now, issues, last_sync, upstream, created, http, inv>>

NextConc ==
  \/ Tick
  \/ \E i \in 1..MaxTasks : ConcArrive(i)
  \/ \E i \in 1..MaxTasks : ConcFresh(i)
  \/ \E i \in 1..MaxTasks : ConcFetch(i)
  \/ \E i \in 1..MaxTasks : ConcFetchFails(i)
  \/ \E i \in 1..MaxTasks : ConcStore(i)
  \/ \E i \in 1..MaxTasks : ConcCreate(i)
  \/ \E i \in 1..MaxTasks : ConcCreateFails(i)

SpecConc == InitConc /\ [][NextConc]_vars

----------------------------------------------------------------------------
(* The scorer alone: find_similar_issues on caches of up to MaxItems        *)
(* issues.  Here inv holds the arguments of the call and, after it, the     *)
(* list it returned.                                                        *)

ScoredIssue(n, summary, description, labels) ==
  [key |-> <<"SCORE", n>>, summary |-> summary, description |-> description,
   labels |-> labels]

\* the issues the caches are made of: two with the same fields, one with a
\* description and a label, one with an empty description, one that is the
\* search text in every field, one that is half of it in every field
ScoredIssues ==
  {ScoredIssue(1, {"login", "bug"}, None, <<>>),
   ScoredIssue(2, {"login", "bug"}, None, <<>>),
   ScoredIssue(3, {"login", "page"}, Some({"login", "bug"}), <<"bug">>),
   ScoredIssue(4, {"docs"}, Some({}), <<"docs">>),
   ScoredIssue(5, {"login", "bug"}, Some({"login", "bug"}), <<"login", "bug">>),
   ScoredIssue(6, {"login"}, Some({"login"}), <<"login">>)}

\* the caches: sequences of issues with different keys
RECURSIVE CachesOf(_)
CachesOf(n) ==
  IF n = 0 THEN {<<>>}
  ELSE LET shorter == CachesOf(n - 1)
       IN shorter \cup
            {Append(c, i) : c \in {c \in shorter : Len(c) = n - 1},
                            i \in ScoredIssues}

DistinctKeys(cache) ==
  \A j, k \in 1..Len(cache) : j # k => cache[j].key # cache[k].key

SearchTexts == {{"login", "bug"}, {"login", "bug", "page", "fix"}}

\* thresholds, in thousandths: 0.6 is the default of find_similar_issues,
\* 0.7 that of _process_pr_comment_for_jira
Thresholds == {0, 600, DefaultThreshold, 800, 1000}

NoScoring == [search_text |-> {}, threshold |-> 0, results |-> None]

InitScore ==
  /\ srv = "scorer"
  /\ now = 0
  /\ issues \in {c \in CachesOf(MaxItems) : DistinctKeys(c)}
  /\ last_sync = Some(0)
  /\ upstream = <<>>
  /\ created = 0
  /\ http = NoHttp
  /\ task = NoTask
  /\ \E search_text \in SearchTexts, threshold \in Thresholds :
       inv = [NoScoring EXCEPT !.search_text = search_text, !.threshold = threshold]

\* find_similar_issues(search_text, threshold) returns
ScoreFind ==
  /\ IsNone(inv.results)
  /\ inv' = [inv EXCEPT !.results =
               Some(find_similar_issues(issues, inv.search_text, inv.threshold))]
  /\ UNCHANGED <<srv, now, issues, last_sync, upstream, created, http, task>>

NextScore == ScoreFind

SpecScore == InitScore /\ [][NextScore]_vars

----------------------------------------------------------------------------
(* The extraction alone: extract_jira_details on comments with fields.      *)
(* Here inv holds the arguments of the call and, after it, the dictionary   *)
(* it returned.                                                             *)

\* "Summary: Fix login\nType: Bug\nLabels: frontend, urgent"
CommentFields ==
  [id |-> "summary: fix login / type: Bug / labels: frontend, urgent",
   phrases |-> {}, summary |-> Some({"fix", "login"}), type |-> Some("Bug"),
   labels |-> Some(<<"frontend", ",", " ", "urgent">>),
   words |-> {"summary", "fix", "login", "type", "bug", "labels", "frontend", "urgent"}]

\* "create ticket\nTYPE: EPIC\nlabel: needs review ,, ui "
CommentLabels ==
  [id |-> "create ticket / TYPE: EPIC / label: needs review ,, ui ",
   phrases |-> {"create ticket"}, summary |-> None, type |-> Some("EPIC"),
   labels |-> Some(<<"needs", " ", "review", " ", ",", ",", " ", "ui", " ">>),
   words |-> {"create", "ticket", "type", "epic", "label", "needs", "review", "ui"}]

\* "new jira, type: story"
CommentStory ==
  [id |-> "new jira, type: story", phrases |-> {"new jira"}, summary |-> None,
   type |-> Some("story"), labels |-> None,
   words |-> {"new", "jira", "type", "story"}]

ExtractComments ==
  {CommentLgtm, CommentCreate, CommentSummary, CommentFields, CommentLabels,
   CommentStory}

ExtractTitles == {{"login", "bug"}, {"docs"}}

\* no body, an empty body, a body
ExtractBodies == {None, Some({}), Some({"update", "docs"})}

\* no number, or the number of a pull request
ExtractNumbers == {None, Some(1), Some(5)}

NoExtraction ==
  [comment |-> CommentLgtm, pr_title |-> {}, pr_body |-> None, pr_number |-> None,
   details |-> None]

InitExtract ==
  /\ srv = "extractor"
  /\ now = 0
  /\ issues = <<>>
  /\ last_sync = None
  /\ upstream = <<>>
  /\ created = 0
  /\ http = NoHttp
  /\ task = NoTask
  /\ \E comment \in ExtractComments, pr_title \in ExtractTitles,
        pr_body \in ExtractBodies, pr_number \in ExtractNumbers :
       inv = [NoExtraction EXCEPT !.comment = comment, !.pr_title = pr_title,
                                  !.pr_body = pr_body, !.pr_number = pr_number]

\* extract_jira_details(comment, pr_title, pr_body, pr_number) returns
Extract ==
  /\ IsNone(inv.details)
  /\ inv' = [inv EXCEPT !.details =
               Some(extract_jira_details(inv.comment, inv.pr_title, inv.pr_body,
                                         inv.pr_number))]
  /\ UNCHANGED <<srv, now, issues, last_sync, upstream, created, http, task>>

NextExtract == Extract

SpecExtract == InitExtract /\ [][NextExtract]_vars

----------------------------------------------------------------------------
(* The signature check alone: _verify_signature on a body and a header      *)
(* value.  Here inv holds the arguments of the call and, after it, its      *)
(* outcome.                                                                 *)

\* the header values a body is checked against: none, the empty one, the
\* signature of the body, the signature under another secret, the
\* signature of each other body, the signature with one character changed
SignaturesFor(body) ==
  {None, Some(<<>>), Some(ExpectedSignature(body)),
   Some(<<"sha256=", HmacHex("other", body)>>)}
    \cup {Some(ExpectedSignature(other)) : other \in Bodies \ {body}}
    \cup {Some(flipped) : flipped \in FlippedSignaturesFor(body)}

NoVerification == [body |-> BadJsonBody, signature |-> None, result |-> ""]

InitSig ==
  /\ srv = "verifier"
  /\ now = 0
  /\ issues = <<>>
  /\ last_sync = None
  /\ upstream = <<>>
  /\ created = 0
  /\ http = NoHttp
  /\ task = NoTask
  /\ \E body \in Bodies :
       \E signature \in SignaturesFor(body) :
         inv = [NoVerification EXCEPT !.body = body, !.signature = signature]

\* _verify_signature(payload, signature) returns or raises
Verify ==
  /\ inv.result = ""
  /\ inv' = [inv EXCEPT !.result = verify_signature_call(inv.body, inv.signature)]
  /\ UNCHANGED <<srv, now, issues, last_sync, upstream, created, http, task>>

NextSig == Verify

SpecSig == InitSig /\ [][NextSig]_vars

----------------------------------------------------------------------------
(* A direct call of _process_pr_comment_for_jira(pr_number, comment,        *)
(* threshold) on a cache that is already filled.                            *)

\* an issue with a summary only
IssueX1 ==
  [key |-> <<"X", 1>>, summary |-> {"fix", "login", "page", "styling"},
   description |-> None, labels |-> <<>>]

\* "create jira issue - Summary: Fix login styling"
CommentStyling ==
  [id |-> "create jira issue - summary: fix login styling",
   phrases |-> {"create jira", "jira issue"},
   summary |-> Some({"fix", "login", "styling"}), type |-> None, labels |-> None,
   words |-> {"create", "jira", "issue", "summary", "fix", "login", "styling"}]

DirectCaches == {<<IssueX1>>, <<IssueB, IssueX1>>, <<IssueA, IssueX1>>}

DirectComments == {CommentLgtm, CommentCreate, CommentStyling}

\* the thresholds of the calls, in thousandths: 0.3 and the default
DirectThresholds == {300, DefaultThreshold}

\* the cache was synchronised when the call starts and the project holds
\* the cached issues
InitDirect ==
  /\ srv = "direct"
  /\ now = 0
  /\ issues \in DirectCaches
  /\ last_sync = Some(0)
  /\ upstream = issues
  /\ created = 0
  /\ http = NoHttp
  /\ task = NoTask
  /\ \E pr_number \in PRNumbers, comment \in DirectComments,
        threshold \in DirectThresholds :
       inv = [Invoke("direct", pr_number, comment) EXCEPT !.threshold = threshold]

NextDirect ==
  \/ Tick
  \/ ProcClassify
  \/ ProcGetPullRequest
  \/ ProcPullRequestMissing
  \/ ProcFresh
  \/ ProcSync
  \/ ProcSyncFails
  \/ ProcFindSimilar
  \/ ProcPostSimilar
  \/ ProcPostSimilarFails
  \/ ProcCreate
  \/ ProcCreateFails
  \/ ProcCreateFetchFails
  \/ ProcPostCreated
  \/ ProcPostCreatedFails
  \/ ProcErrorComment
  \/ ProcErrorCommentFails

SpecDirect == InitDirect /\ [][NextDirect]_vars

----------------------------------------------------------------------------
(* The construction of the Jira client: auth.py and JiraClient.__init__.    *)
(* A string is a sequence of pieces; the piece "Bearer " is the only place  *)
(* where that text occurs.  Here inv holds the configuration, the place in  *)
(* __init__, the authenticator and the arguments JIRA was called with.      *)

NoAuthenticator == [kind |-> "none", username |-> "", secret |-> <<>>]

\* JIRA was not called
NoJira == [auth |-> "none", username |-> "", secret |-> <<>>]

\* BasicAuthenticator(username, password): ValueError without both
BasicAuthenticator(username, password) ==
  IF username = "" \/ password = <<>>
  THEN [raised |-> "ValueError", authenticator |-> NoAuthenticator]
  ELSE [raised |-> "",
        authenticator |-> [kind |-> "basic", username |-> username, secret |-> password]]

\* BearerAuthenticator(token): ValueError without a token
BearerAuthenticator(token) ==
  IF token = <<>>
  THEN [raised |-> "ValueError", authenticator |-> NoAuthenticator]
  ELSE [raised |-> "",
        authenticator |-> [kind |-> "bearer", username |-> "", secret |-> token]]

\* create_authenticator(username, api_token, auth_method)
create_authenticator(username, api_token, auth_method) ==
  IF auth_method = "basic" THEN BasicAuthenticator(username, api_token)
  ELSE IF auth_method = "bearer" THEN BearerAuthenticator(api_token)
  ELSE [raised |-> "ValueError", authenticator |-> NoAuthenticator]

\* get_headers()["Authorization"]: "Bearer {token}", or "Basic " and the
\* base64 text of "username:password", which has no blank in it
get_headers(authenticator) ==
  IF authenticator.kind = "bearer" THEN <<"Bearer ">> \o authenticator.secret
  ELSE <<"Basic ",
         "base64(" \o authenticator.username \o ":" \o Spell(authenticator.secret) \o ")">>

\* str.startswith(prefix)
StartsWith(text, prefix) == text # <<>> /\ Head(text) = prefix

\* str.replace(old, ""): every occurrence of old is removed
Replace(text, old) == SelectSeq(text, LAMBDA piece : piece # old)

\* the call of JIRA(...) that __init__ makes for an Authorization header
jira_for(auth_header, username, api_token) ==
  IF StartsWith(auth_header, "Basic ")
  THEN [auth |-> "basic_auth", username |-> username, secret |-> api_token]
  ELSE IF StartsWith(auth_header, "Bearer ")
       THEN [auth |-> "token_auth", username |-> "",
             secret |-> Replace(auth_header, "Bearer ")]
       ELSE [auth |-> "basic_auth", username |-> username, secret |-> api_token]

\* JIRA_USERNAME and JIRA_API_TOKEN are required and not empty
AuthUsernames == {"user", "bot"}

AuthTokens == {<<"token">>, <<"Bearer ", "token">>, <<"to", "Bearer ", "ken">>}

\* JIRA_AUTH_METHOD is any string
AuthMethods == {"basic", "bearer", "Bearer", "BASIC", "oauth", "token", ""}

NoConstruction ==
  [pc |-> "create", username |-> "", api_token |-> <<>>, auth_method |-> "",
   authenticator |-> NoAuthenticator, jira |-> NoJira]

InitAuth ==
  /\ srv = "constructor"
  /\ now = 0
  /\ issues = <<>>
  /\ last_sync = None
  /\ upstream = <<>>
  /\ created = 0
  /\ http = NoHttp
  /\ task = NoTask
  /\ \E username \in AuthUsernames, api_token \in AuthTokens,
        auth_method \in AuthMethods :
       inv = [NoConstruction EXCEPT !.username = username, !.api_token = api_token,
                                    !.auth_method = auth_method]

\* create_authenticator returns the authenticator of the configured method
AuthCreate ==
  /\ inv.pc = "create"
  /\ LET made == create_authenticator(inv.username, inv.api_token, inv.auth_method)
     IN /\ made.raised = ""
        /\ inv' = [inv EXCEPT !.pc = "headers", !.authenticator = made.authenticator]
  /\ UNCHANGED <<srv, now, issues, last_sync, upstream, created, http, task>>

\* create_authenticator raises ValueError: the except clause is entered
AuthCreateRaises ==
  /\ inv.pc = "create"
  /\ create_authenticator(inv.username, inv.api_token, inv.auth_method).raised
       = "ValueError"
  /\ inv' = [inv EXCEPT !.pc = "fallback"]
  /\ UNCHANGED <<srv, now, issues, last_sync, upstream, created, http, task>>

\* the except clause: create_authenticator(..., "basic"); a ValueError
\* raised here leaves __init__
AuthFallback ==
  /\ inv.pc = "fallback"
  /\ LET made == create_authenticator(inv.username, inv.api_token, "basic")
     IN inv' = IF made.raised = ""
               THEN [inv EXCEPT !.pc = "headers", !.authenticator = made.authenticator]
               ELSE [inv EXCEPT !.pc = "raised"]
  /\ UNCHANGED <<srv, now, issues, last_sync, upstream, created, http, task>>

\* the headers are read and JIRA(...) is called
AuthConnect ==
  /\ inv.pc = "headers"
  /\ inv' = [inv EXCEPT !.pc = "constructed",
                        !.jira = jira_for(get_headers(inv.authenticator),
                                          inv.username, inv.api_token)]
  /\ UNCHANGED <<srv, now, issues, last_sync, upstream, created, http, task>>

NextAuth ==
  \/ AuthCreate
  \/ AuthCreateRaises
  \/ AuthFallback
  \/ AuthConnect

SpecAuth == InitAuth /\ [][NextAuth]_vars

----------------------------------------------------------------------------
(* The configuration: config.py.  The environment gives each variable no    *)
(* value, the empty value or a value.  Here inv holds the environment, the  *)
(* call that was made and its outcome.                                      *)

\* the required variables, in the order load_config reads them and
\* validate_config lists them
RequiredVars ==
  <<"JIRA_HOST", "JIRA_USERNAME", "JIRA_API_TOKEN", "JIRA_PROJECT_KEY",
    "GITHUB_TOKEN", "GITHUB_WEBHOOK_SECRET", "GITHUB_OWNER", "GITHUB_REPO">>

RequiredNames == {RequiredVars[k] : k \in 1..Len(RequiredVars)}

\* "if not value": None and "" are false
Falsy(value) == IsNone(value) \/ Get(value) = ""

\* get_required_env_var that only rejects a variable that is not set
get_required_env_var_unset_only(env, name) ==
  IF IsNone(env[name])
  THEN [raised |-> "ValueError", named |-> <<name>>, value |-> ""]
  ELSE [raised |-> "", named |-> <<>>, value |-> Get(env[name])]

\* get_required_env_var(name) in the environment env
get_required_env_var(env, name) ==
  IF Falsy(env[name])
  THEN [raised |-> "ValueError", named |-> <<name>>, value |-> ""]
  ELSE [raised |-> "", named |-> <<>>, value |-> Get(env[name])]

NoConfig == [name \in RequiredNames |-> ""]

\* int(get_optional_env_var('PORT', '3000')): ValueError for a text that is
\* not a number
port_raises(port) == ~IsNone(port) /\ Get(port) \notin {"3000", "8080"}

\* load_config(): the first required variable that is missing raises; then
\* the port is converted
load_config(env, port) ==
  LET missing == {k \in 1..Len(RequiredVars) :
                    get_required_env_var(env, RequiredVars[k]).raised # ""}
  IN IF missing # {}
     THEN LET first == CHOOSE k \in missing : \A j \in missing : k <= j
          IN [raised |-> "ValueError", named |-> <<RequiredVars[first]>>,
              config |-> NoConfig]
     ELSE IF port_raises(port)
          THEN [raised |-> "ValueError", named |-> <<"PORT">>, config |-> NoConfig]
          ELSE [raised |-> "", named |-> <<>>,
                config |-> [name \in RequiredNames |->
                              get_required_env_var(env, name).value]]

\* validate_config(config): ValueError naming every field that is empty
validate_config(config) ==
  LET missing_fields == SelectSeq(RequiredVars, LAMBDA name : config[name] = "")
  IN [raised |-> IF missing_fields # <<>> THEN "ValueError" ELSE "",
      named |-> missing_fields, config |-> config]

\* get_config() with no configuration loaded yet
get_config(env, port) ==
  LET loaded == load_config(env, port)
  IN IF loaded.raised # "" THEN loaded ELSE validate_config(loaded.config)

EnvValues == {None, Some(""), Some("value")}

PortValues == {None, Some("abc")}

NoConfigCall ==
  [env |-> [name \in RequiredNames |-> None], port |-> None, op |-> "",
   name |-> "", raised |-> "", named |-> <<>>, config |-> NoConfig]

InitConfig ==
  /\ srv = "config"
  /\ now = 0
  /\ issues = <<>>
  /\ last_sync = None
  /\ upstream = <<>>
  /\ created = 0
  /\ http = NoHttp
  /\ task = NoTask
  /\ \E env \in [RequiredNames -> EnvValues], port \in PortValues :
       inv = [NoConfigCall EXCEPT !.env = env, !.port = port]

\* get_required_env_var(name) is called
CallGetRequired ==
  /\ inv.op = ""
  /\ \E name \in RequiredNames :
       LET got == get_required_env_var(inv.env, name)
       IN inv' = [inv EXCEPT !.op = "get_required_env_var", !.name = name,
                             !.raised = got.raised, !.named = got.named]
  /\ UNCHANGED <<srv, now, issues, last_sync, upstream, created, http, task>>

\* validate_config is called on a configuration that holds the values of
\* the environment, "" where there is none
CallValidate ==
  /\ inv.op = ""
  /\ LET given == [name \in RequiredNames |->
                     IF IsNone(inv.env[name]) THEN "" ELSE Get(inv.env[name])]
         checked == validate_config(given)
     IN inv' = [inv EXCEPT !.op = "validate_config", !.raised = checked.raised,
                           !.named = checked.named, !.config = given]
  /\ UNCHANGED <<srv, now, issues, last_sync, upstream, created, http, task>>

\* get_config() is called
CallGetConfig ==
  /\ inv.op = ""
  /\ LET got == get_config(inv.env, inv.port)
     IN inv' = [inv EXCEPT !.op = "get_config", !.raised = got.raised,
                           !.named = got.named, !.config = got.config]
  /\ UNCHANGED <<srv, now, issues, last_sync, upstream, created, http, task>>

NextConfig ==
  \/ CallGetRequired
  \/ CallValidate
  \/ CallGetConfig

SpecConfig == InitConfig /\ [][NextConfig]_vars

----------------------------------------------------------------------------
(* The MCP tool process_pr_comment_for_jira, run after the webhook's     *)
(* procedure on the same cache with the same answers of Jira and GitHub: *)
(* mcp_server.py                                                         *)

\* the answers of the collaborators to the calls of one run
Responses ==
  [get_pr : BOOLEAN, sync : BOOLEAN, create : {"ok", "raises", "fetch_raises"},
   comment : BOOLEAN, error_comment : BOOLEAN]

\* no run of the webhook's procedure has been recorded
NoRun ==
  [pc |-> "none", result |-> None, error |-> "", calls |-> <<>>,
   issues |-> <<>>, last_sync |-> None, upstream |-> <<>>]

\* the text a tool handler returns, by its fixed part and the values put
\* into it
McpText(text, key, similarity) ==
  [text |-> text, key |-> key, similarity |-> similarity]

\* _process_pr_comment_for_jira(args) of the MCP server, called when the
\* webhook's procedure has ended: its end is recorded, and the cache and the
\* project are as they were before it
McpCall ==
  /\ inv.caller = "webhook"
  /\ inv.pc \in {"returned", "raised"}
  /\ task' = [pc |-> inv.pc, result |-> inv.result, error |-> inv.error,
              calls |-> inv.calls, issues |-> issues, last_sync |-> last_sync,
              upstream |-> upstream]
  /\ issues' = inv.issues0
  /\ last_sync' = inv.last_sync0
  /\ upstream' = http.upstream0
  /\ created' = 0
  /\ inv' = [Invoke("mcp", inv.pr_number, inv.comment)
               EXCEPT !.threshold = inv.threshold, !.issues0 = inv.issues0,
                      !.last_sync0 = inv.last_sync0]
  /\ UNCHANGED <<srv, now, http>>

\* the check of the comment: the text about no request is returned
McpClassify ==
  /\ inv.caller = "mcp"
  /\ inv.pc = "start"
  /\ inv' = IF ~is_create_jira_comment(inv.comment)
            THEN [inv EXCEPT
                    !.pc = "returned",
                    !.result = Some(McpText(
                      "Comment does not contain a request to create a Jira issue",
                      NoArg, 0))]
            ELSE [inv EXCEPT !.pc = "get_pr"]
  /\ UNCHANGED <<srv, now, issues, last_sync, upstream, created, http, task>>

\* get_pull_request; "Pull request #n not found" is raised to the caller
\* when it returns None; extract_jira_details follows otherwise
McpGetPullRequest ==
  /\ inv.caller = "mcp"
  /\ inv.pc = "get_pr"
  /\ LET pr == IF http.responses.get_pr THEN PullRequest(inv.pr_number) ELSE None
     IN inv' = IF IsNone(pr)
               THEN FailUncaught(Log(inv, Call("get_pull_request", FALSE, NoArg)),
                                 "pr_not_found")
               ELSE [Log(inv, Call("get_pull_request", TRUE, NoArg))
                       EXCEPT !.pc = "check_sync",
                              !.details = Some(extract_jira_details(
                                            inv.comment, Get(pr).title, Get(pr).body,
                                            Some(Get(pr).number)))]
  /\ UNCHANGED <<srv, now, issues, last_sync, upstream, created, http, task>>

\* the freshness check that never syncs
McpEnsureSyncedNever ==
  /\ inv.caller = "mcp"
  /\ inv.pc = "check_sync"
  /\ inv' = [inv EXCEPT !.pc = "find", !.needed_sync = Some(FALSE)]
  /\ UNCHANGED <<srv, now, issues, last_sync, upstream, created, http, task>>

\* if needs_sync(): sync_issues(); a failure of the sync is raised to the
\* caller
McpEnsureSynced ==
  /\ inv.caller = "mcp"
  /\ inv.pc = "check_sync"
  /\ IF ~needs_sync(last_sync, now)
     THEN /\ inv' = [inv EXCEPT !.pc = "find", !.needed_sync = Some(FALSE)]
          /\ UNCHANGED <<issues, last_sync>>
     ELSE IF http.responses.sync
          THEN /\ sync_issues
               /\ inv' = [Log(inv, Call("sync_issues", TRUE, NoArg))
                            EXCEPT !.pc = "find", !.needed_sync = Some(TRUE)]
          ELSE /\ inv' = [FailUncaught(Log(inv, Call("sync_issues", FALSE, NoArg)),
                                       "sync_failed")
                            EXCEPT !.needed_sync = Some(TRUE)]
               /\ UNCHANGED <<issues, last_sync>>
  /\ UNCHANGED <<srv, now, upstream, created, http, task>>

\* find_similar_issues(search_text, threshold) on the cache
McpFindSimilar ==
  /\ inv.caller = "mcp"
  /\ inv.pc = "find"
  /\ LET similar_issues ==
           find_similar_issues(issues, SearchText(Get(inv.details)), inv.threshold)
     IN inv' = [Log(inv, Call("find_similar_issues", TRUE, NoArg))
                  EXCEPT !.pc = IF similar_issues # <<>> THEN "post_similar" ELSE "create",
                         !.matches = similar_issues]
  /\ UNCHANGED <<srv, now, issues, last_sync, upstream, created, http, task>>

\* the comment about similar_issues[0] and the text about it; a failure of
\* the comment is raised to the caller
McpPostSimilar ==
  /\ inv.caller = "mcp"
  /\ inv.pc = "post_similar"
  /\ LET best == inv.matches[1]
     IN inv' = IF http.responses.comment
               THEN [Log(inv, Call("add_comment:similar", TRUE, best.issue.key))
                       EXCEPT !.pc = "returned",
                              !.result = Some(McpText("Found similar existing issue",
                                                      best.issue.key,
                                                      best.score))]
               ELSE FailUncaught(Log(inv, Call("add_comment:similar", FALSE,
                                               best.issue.key)),
                                 "comment_failed")
  /\ UNCHANGED <<srv, now, issues, last_sync, upstream, created, http, task>>

\* jira_client.create_issue(request): the issue is created and cached, or
\* the creation raises, or the fetch of the created issue raises
McpCreate ==
  /\ inv.caller = "mcp"
  /\ inv.pc = "create"
  /\ created < MaxCreate
  /\ LET request == CreateRequest(Get(inv.details))
         new_issue == CreatedIssue(request, created + 1)
     IN CASE http.responses.create = "ok" ->
               /\ create_issue(request)
               /\ inv' = [Log(Log(inv, Call("create_issue", TRUE, new_issue.key)),
                              Call("cache_insert", TRUE, new_issue.key))
                            EXCEPT !.pc = "post_created",
                                   !.new_issue = Some(new_issue)]
          [] http.responses.create = "raises" ->
               /\ inv' = FailUncaught(Log(inv, Call("create_issue", FALSE, NoArg)),
                                      "create_failed")
               /\ UNCHANGED <<issues, upstream, created>>
          [] http.responses.create = "fetch_raises" ->
               /\ upstream' = <<new_issue>> \o upstream
               /\ created' = created + 1
               /\ inv' = FailUncaught(Log(inv, Call("create_issue", FALSE,
                                                    new_issue.key)),
                                      "create_failed")
               /\ UNCHANGED issues
  /\ UNCHANGED <<srv, now, last_sync, http, task>>

\* the comment about the created issue and the text about it
McpPostCreated ==
  /\ inv.caller = "mcp"
  /\ inv.pc = "post_created"
  /\ inv' = IF http.responses.comment
            THEN [Log(inv, Call("add_comment:created", TRUE, Get(inv.new_issue).key))
                    EXCEPT !.pc = "returned",
                           !.result = Some(McpText("Created new Jira issue",
                                                   Get(inv.new_issue).key, 0))]
            ELSE FailUncaught(Log(inv, Call("add_comment:created", FALSE,
                                            Get(inv.new_issue).key)),
                              "comment_failed")
  /\ UNCHANGED <<srv, now, issues, last_sync, upstream, created, http, task>>

\* the caches, the comments and the thresholds of the two runs
McpCaches == {<<>>, <<IssueX1>>, <<IssueA, IssueX1>>}

\* the webhook's procedure is called first; the cache is fresh, stale or
\* was never synced, and the project may hold an issue the cache has not
InitMcp ==
  /\ srv = "mcp"
  /\ now \in {0, MaxTime}
  /\ issues \in McpCaches
  /\ last_sync \in {None, Some(0)}
  /\ upstream \in {issues, <<IssueB>> \o issues}
  /\ created = 0
  /\ \E responses \in Responses :
       http = [responses |-> responses, upstream0 |-> upstream]
  /\ task = NoRun
  /\ \E pr_number \in PRNumbers, comment \in DirectComments,
        threshold \in DirectThresholds :
       inv = [Invoke("webhook", pr_number, comment) EXCEPT !.threshold = threshold]

\* the steps of the webhook's procedure under the answers of the run
ProcStepAnswered ==
  /\ inv.caller = "webhook"
  /\ \/ ProcClassify
     \/ http.responses.get_pr /\ ProcGetPullRequest
     \/ (~http.responses.get_pr \/ IsNone(PullRequest(inv.pr_number)))
          /\ ProcPullRequestMissing
     \/ ProcFresh
     \/ http.responses.sync /\ ProcSync
     \/ ~http.responses.sync /\ ProcSyncFails
     \/ ProcFindSimilar
     \/ http.responses.comment /\ ProcPostSimilar
     \/ ~http.responses.comment /\ ProcPostSimilarFails
     \/ http.responses.create = "ok" /\ ProcCreate
     \/ http.responses.create = "raises" /\ ProcCreateFails
     \/ http.responses.create = "fetch_raises" /\ ProcCreateFetchFails
     \/ http.responses.comment /\ ProcPostCreated
     \/ ~http.responses.comment /\ ProcPostCreatedFails
     \/ http.responses.error_comment /\ ProcErrorComment
     \/ ~http.responses.error_comment /\ ProcErrorCommentFails

NextMcp ==
  \/ ProcStepAnswered
  \/ McpCall
  \/ McpClassify
  \/ McpGetPullRequest
  \/ McpEnsureSynced
  \/ McpFindSimilar
  \/ McpPostSimilar
  \/ McpCreate
  \/ McpPostCreated

SpecMcp == InitMcp /\ [][NextMcp]_vars

----------------------------------------------------------------------------
(* SimpleMCPServer: mcp_server.py *)

\* three of the names _setup_tools registers
ToolNames ==
  {"sync_jira_issues", "search_similar_issues", "process_pr_comment_for_jira"}

\* SimpleMCPServer.__init__: no tools; in tool_handlers 0 stands for a name
\* that is not a key
NoServer == [tools |-> <<>>, tool_handlers |-> [name \in ToolNames |-> 0]]

\* add_tool: the description is appended to tools and the handler is bound
\* to the name
add_tool(server, name, handler) ==
  [tools |-> Append(server.tools, [name |-> name]),
   tool_handlers |-> [server.tool_handlers EXCEPT ![name] = handler]]

\* a value the request gives as the tool's name: no value, a string, or a
\* list
NoName == [kind |-> "absent", value |-> ""]

\* the requests: with or without a method; params absent, null or a dict
Requests ==
  [method : {None, Some("tools/list"), Some("tools/call"), Some("initialize")},
   params : [kind : {"absent", "null"}, name : {NoName}]
            \cup [kind : {"dict"},
                  name : {NoName, [kind |-> "list", value |-> "sync_jira_issues"]}
                         \cup [kind : {"str"},
                               value : ToolNames \cup {"delete_everything"}]]]

\* what a call of a handler does: it returns a text or raises an Exception
\* with a message
HandlerOutcomes ==
  [raises : BOOLEAN, text : {"Synced 2 issues from Jira", "Jira is unreachable"}]

\* str(x) for a value that may be None
Str(x) == IF IsNone(x) THEN "None" ELSE Get(x)

\* the end of handle_request: the dict it returns (kind "tools", "content"
\* or "error") or the exception it raises (kind "raised"), and the handlers
\* it called
Answer(kind, tools, text, isError, called) ==
  [kind |-> kind, tools |-> tools, text |-> text, isError |-> isError,
   called |-> called]

\* name in self.tool_handlers
HasHandler(server, name) ==
  name \in DOMAIN server.tool_handlers /\ server.tool_handlers[name] # 0

\* handle_request(request), the handler answering with outcome.
\* request.get("params", {}) is None when the request says "params": null,
\* and None has no get; a list is no key of a dict
handle_request(server, request, outcome) ==
  LET method == request.method
      params == IF request.params.kind = "absent"
                THEN [kind |-> "dict", name |-> NoName]
                ELSE request.params
  IN IF method = Some("tools/list")
     THEN Answer("tools", server.tools, "", FALSE, <<>>)
     ELSE IF method = Some("tools/call")
          THEN IF params.kind # "dict"
               THEN Answer("raised", <<>>, "AttributeError", FALSE, <<>>)
               ELSE LET tool_name == params.name
                    IN IF tool_name.kind = "list"
                       THEN Answer("raised", <<>>, "TypeError", FALSE, <<>>)
                       ELSE IF tool_name.kind = "str"
                               /\ HasHandler(server, tool_name.value)
                            THEN Answer("content", <<>>,
                                        IF outcome.raises
                                        THEN "Error: " \o outcome.text
                                        ELSE outcome.text,
                                        outcome.raises,
                                        <<server.tool_handlers[tool_name.value]>>)
                            ELSE Answer("content", <<>>,
                                        "Unknown tool: "
                                          \o (IF tool_name.kind = "str"
                                              THEN tool_name.value ELSE "None"),
                                        TRUE, <<>>)
          ELSE Answer("error", <<>>, "Unknown method: " \o Str(method), FALSE, <<>>)

\* a server without tools that has handled no request
NoHandling == [server |-> NoServer, request |-> None, response |-> None]

InitHandle ==
  /\ srv = "mcp_handler"
  /\ now = 0
  /\ issues = <<>>
  /\ last_sync = None
  /\ upstream = <<>>
  /\ created = 0
  /\ http = NoHttp
  /\ task = NoTask
  /\ inv = NoHandling

\* add_tool(name, ..., handler); the handlers are numbered as registered
AddTool ==
  /\ Len(inv.server.tools) < MaxTools
  /\ \E name \in ToolNames :
       inv' = [inv EXCEPT
                 !.server = add_tool(inv.server, name, Len(inv.server.tools) + 1)]
  /\ UNCHANGED <<srv, now, issues, last_sync, upstream, created, http, task>>

\* handle_request(request)
HandleRequest ==
  /\ \E request \in Requests, outcome \in HandlerOutcomes :
       inv' = [inv EXCEPT
                 !.request = Some(request),
                 !.response = Some(handle_request(inv.server, request, outcome))]
  /\ UNCHANGED <<srv, now, issues, last_sync, upstream, created, http, task>>

NextHandle ==
  \/ AddTool
  \/ HandleRequest

SpecHandle == InitHandle /\ [][NextHandle]_vars

----------------------------------------------------------------------------
(* Reading the log of an invocation *)

\* the positions of the calls of an operation in a log
CallsOf(calls, op) == {k \in 1..Len(calls) : calls[k].op = op}

ErrorComments(calls) == CallsOf(calls, "add_comment:error")

\* the error a failed call raises in _process_pr_comment_for_jira
ErrorOf(call) ==
  CASE call.op = "get_pull_request" -> "pr_not_found"
    [] call.op = "sync_issues" -> "sync_failed"
    [] call.op = "create_issue" -> "create_failed"
    [] OTHER -> "comment_failed"

\* the first failure of an invocation: the failed calls other than the
\* error comment
Failures(calls) ==
  {k \in 1..Len(calls) : ~calls[k].ok /\ calls[k].op # "add_comment:error"}

\* the signature header of the request is the signature of its body
SignatureMatches(h) ==
  ~IsNone(h.signature) /\ Get(h.signature) = ExpectedSignature(h.body)

----------------------------------------------------------------------------
(* C1 *)

\* C1: a comment that is not a creation request makes
\* _process_pr_comment_for_jira return "skipped" with no external call at
\* all (no get_pull_request, no sync, no create_issue, no add_comment), and
\* the cache items and last_sync are as they were at the call.
C1_SkippedWithoutCalls ==
  (inv.pc # "idle" /\ ~is_create_jira_comment(inv.comment)) =>
    /\ inv.pc \in {"start", "returned"}
    /\ inv.calls = <<>>
    /\ issues = inv.issues0
    /\ last_sync = inv.last_sync0
    /\ inv.pc = "returned" =>
         /\ ~IsNone(inv.result)
         /\ Get(inv.result).action = "skipped"

\* an invocation with a comment that asks for nothing has returned, on a
\* server whose cache holds issues
C1_Witness ==
  /\ inv.pc = "returned"
  /\ ~is_create_jira_comment(inv.comment)
  /\ issues # <<>>
----------------------------------------------------------------------------
(* C2 *)

C2_State ==
  inv.matches # <<>> =>
    LET best == inv.matches[1]
        posts == CallsOf(inv.calls, "add_comment:similar")
    IN /\ \A k \in 1..Len(inv.matches) : inv.matches[k].score <= best.score
       /\ inv.pc \in {"post_similar", "returned", "error_comment", "raised"}
       /\ CallsOf(inv.calls, "create_issue") = {}
       /\ CallsOf(inv.calls, "cache_insert") = {}
       /\ CallsOf(inv.calls, "add_comment:created") = {}
       /\ Cardinality(posts) = IF inv.pc = "post_similar" THEN 0 ELSE 1
       /\ \A k \in posts : inv.calls[k].arg = best.issue.key
       /\ inv.pc = "returned" =>
            /\ \A k \in posts : inv.calls[k].ok
            /\ inv.result = Some([action |-> "found_similar", issue |-> Some(best.issue),
                                  similarity |-> best.score])
       /\ inv.pc \in {"error_comment", "raised"} => \A k \in posts : ~inv.calls[k].ok

\* C2: when find_similar_issues returns a non-empty list, the invocation
\* posts exactly one "found similar" comment, naming the first match, which
\* has the highest score; it returns "found_similar" with that match's issue
\* and score (unless that post fails, which raises); it never calls
\* create_issue, and no step of it changes the cache from then on.
C2_FoundSimilar ==
  /\ []C2_State
  /\ [][inv.matches # <<>> =>
          (issues' = issues /\ last_sync' = last_sync /\ upstream' = upstream)]_vars

\* "found_similar" was returned for a match that is not the first issue of
\* the cache, out of two matches
C2_Witness ==
  /\ inv.pc = "returned"
  /\ Len(inv.matches) = 2
  /\ inv.matches[1].score > inv.matches[2].score
  /\ inv.matches[1].issue # issues[1]
  /\ Get(inv.result).action = "found_similar"

----------------------------------------------------------------------------
(* C3 *)

\* C3: when find_similar_issues returns no match, the invocation calls
\* create_issue once, with the request built from the extraction and the
\* configured project key; the new issue is put at the front of the cache
\* only after the creation has succeeded; the "created" comment is posted
\* only when the new issue is in the cache; and then "created" is returned
\* with the new issue.
C3_CreateThenCacheThenComment ==
  (inv.matches = <<>> /\ CallsOf(inv.calls, "find_similar_issues") # {}) =>
    LET calls == inv.calls
        creates == CallsOf(calls, "create_issue")
        inserts == CallsOf(calls, "cache_insert")
        posts == CallsOf(calls, "add_comment:created")
        expected == CreatedIssue(CreateRequest(Get(inv.details)), created)
    IN /\ inv.pc \in {"create", "post_created", "returned", "error_comment", "raised"}
       /\ CallsOf(calls, "add_comment:similar") = {}
       /\ Cardinality(creates) = IF inv.pc = "create" THEN 0 ELSE 1
       /\ \A k \in creates : calls[k - 1].op = "find_similar_issues"
       /\ \A k \in inserts :
            /\ calls[k - 1].op = "create_issue"
            /\ calls[k - 1].ok
            /\ calls[k - 1].arg = calls[k].arg
       /\ (\E k \in creates : calls[k].ok) <=> inserts # {}
       /\ inserts # {} =>
            /\ inv.new_issue = Some(expected)
            /\ expected.key = calls[CHOOSE k \in inserts : TRUE].arg
            /\ Len(issues) > 0
            /\ issues[1] = expected
            /\ Len(upstream) > 0
            /\ upstream[1] = expected
       /\ \A k \in posts :
            /\ calls[k - 1].op = "cache_insert"
            /\ calls[k - 1].arg = calls[k].arg
       /\ Cardinality(posts) <= 1
       /\ inv.pc = "post_created" => (posts = {} /\ inserts # {})
       /\ inv.pc = "returned" =>
            /\ \E k \in posts : calls[k].ok /\ k = Len(calls)
            /\ inv.result = Some([action |-> "created", issue |-> Some(expected),
                                  similarity |-> 0])

\* "created" was returned after a sync of a cache that holds other issues
C3_Witness ==
  /\ inv.pc = "returned"
  /\ Get(inv.result).action = "created"
  /\ Len(issues) > 1
  /\ CallsOf(inv.calls, "sync_issues") # {}

----------------------------------------------------------------------------
(* C4 *)

C4_State ==
  LET calls == inv.calls
      syncs == CallsOf(calls, "sync_issues")
      finds == CallsOf(calls, "find_similar_issues")
  IN /\ (inv.pc = "find" \/ finds # {}) =>
          /\ ~IsNone(last_sync)
          /\ ~IsNone(inv.needed_sync)
     /\ inv.needed_sync = Some(TRUE) =>
          /\ Cardinality(syncs) = 1
          /\ inv.pc = "find" => \E k \in syncs : calls[k].ok /\ k = Len(calls)
          /\ \A f \in finds : \E k \in syncs : calls[k].ok /\ k = f - 1
          /\ (\E k \in syncs : ~calls[k].ok) =>
               (finds = {} /\ inv.pc \in {"error_comment", "raised"})
     /\ inv.needed_sync = Some(FALSE) =>
          /\ syncs = {}
          /\ last_sync = inv.last_sync0
     /\ IsNone(inv.needed_sync) => (syncs = {} /\ finds = {})

\* the step that leaves the freshness check
C4_Step ==
  (inv.pc = "check_sync" /\ inv'.pc # "check_sync") =>
    LET stale == IsNone(last_sync) \/ Get(last_sync) + SyncWindow < now
    IN /\ inv'.needed_sync = Some(stale)
       /\ (stale /\ inv'.pc = "find") => (issues' = upstream /\ last_sync' = Some(now))
       /\ ~stale => (inv'.pc = "find" /\ issues' = issues /\ last_sync' = last_sync)

\* C4: the freshness check precedes scoring.  If needs_sync() is true at
\* the check (never synced, or synced more than five minutes ago), one
\* sync_issues call succeeds before find_similar_issues reads the cache; if
\* it is false, the invocation makes no sync_issues call; so
\* find_similar_issues never runs in an invocation on a cache that was never
\* synced.
C4_SyncBeforeScoring == []C4_State /\ [][C4_Step]_vars

\* the cache of a server whose initial sync failed was scored after the
\* invocation's own sync
C4_Witness ==
  /\ IsNone(inv.last_sync0)
  /\ inv.needed_sync = Some(TRUE)
  /\ CallsOf(inv.calls, "find_similar_issues") # {}
  /\ inv.matches # <<>>
----------------------------------------------------------------------------
(* C5 *)

\* C5: a POST /webhook request whose signature header is missing or is not
\* the HMAC of the raw body is answered with 401.
C5_BadSignatureIs401 ==
  (http.endpoint = "webhook" /\ ~SignatureMatches(http)) => http.status = 401

----------------------------------------------------------------------------
(* C6 *)

\* C6: github_webhook parses the body and schedules the background task
\* only after the signature has been verified: a request with a missing or
\* mismatched signature is neither parsed nor scheduled, and a body that
\* fails to parse is never scheduled.
C6_VerifyBeforeParse ==
  http.endpoint = "webhook" =>
    /\ ~SignatureMatches(http) =>
         /\ ~http.parsed
         /\ ~http.scheduled
         /\ task = NoTask
         /\ inv = NoInv
    /\ ~(http.body.utf8 /\ http.body.json) =>
         /\ ~http.scheduled
         /\ task = NoTask
         /\ inv = NoInv
    /\ (http.scheduled \/ task.state # "none" \/ inv.pc # "idle") =>
         /\ SignatureMatches(http)
         /\ http.parsed
         /\ http.body.json

\* a request that carries the signature of another body, and a body that
\* would have started the processing, was answered
C6_Witness ==
  /\ http.endpoint = "webhook"
  /\ ~IsNone(http.signature)
  /\ Get(http.signature) # <<>>
  /\ ~SignatureMatches(http)
  /\ http.body.json
  /\ Dispatch(http.event_type, http.body.payload) = "call"
  /\ http.status # 0

----------------------------------------------------------------------------
(* C7 *)

\* C7: a POST /webhook request with a valid signature whose body is not
\* well-formed JSON is answered with 400.
C7_BadJsonIs400 ==
  (http.endpoint = "webhook" /\ SignatureMatches(http)
     /\ ~(http.body.utf8 /\ http.body.json)) => http.status = 400

----------------------------------------------------------------------------
(* C8 *)

\* C8: a POST /webhook request with a valid signature and well-formed JSON
\* is answered with the success acknowledgement whatever the background
\* task does: a failure while handling the event (an error raised by
\* _process_pr_comment_for_jira, a payload without the expected keys) is
\* logged by _handle_webhook_event and leaves neither the task nor the
\* response.
C8_AcknowledgedWhateverTheOutcome ==
  (http.endpoint = "webhook" /\ SignatureMatches(http)
     /\ http.body.utf8 /\ http.body.json) =>
    /\ http.status = 200
    /\ http.scheduled
    /\ task.state # "none"
    /\ ~task.escaped
    /\ task.state = "finished" =>
         /\ inv.pc \in {"idle", "returned", "raised"}
         /\ inv.pc = "raised" => (task.logged = inv.error /\ task.logged # "")
         /\ Dispatch(task.event_type, task.payload) = "KeyError" =>
              task.logged = "KeyError"
         /\ inv.pc \in {"idle", "returned"} =>
              (task.logged # "" <=> Dispatch(task.event_type, task.payload) = "KeyError")

\* the task of an acknowledged request finished after
\* _process_pr_comment_for_jira raised
C8_Witness ==
  /\ http.endpoint = "webhook"
  /\ http.status = 200
  /\ task.state = "finished"
  /\ inv.pc = "raised"
  /\ task.logged = "create_failed"

----------------------------------------------------------------------------
(* C9 *)

\* C9: when a step of webhook-path processing fails (the fetch of the pull
\* request, the sync, the "found similar" comment, the creation or the
\* "created" comment), exactly one error comment is attempted on the pull
\* request; a failure of that comment is only logged; and the error raised
\* to the event handler, which logs it, is the original one.
C9_OneErrorCommentOriginalError ==
  inv.caller = "webhook" =>
    LET calls == inv.calls
        fails == Failures(calls)
        errs == ErrorComments(calls)
    IN /\ Cardinality(fails) <= 1
       /\ inv.pc \notin {"error_comment", "raised"} =>
            (fails = {} /\ errs = {} /\ inv.error = "")
       /\ inv.pc = "error_comment" =>
            /\ fails = {Len(calls)}
            /\ errs = {}
            /\ inv.error = ErrorOf(calls[Len(calls)])
       /\ inv.pc = "raised" =>
            /\ fails = {Len(calls) - 1}
            /\ errs = {Len(calls)}
            /\ inv.error = ErrorOf(calls[Len(calls) - 1])
            /\ calls[Len(calls)].ok <=> inv.comment_error = ""
            /\ task.state = "finished" => task.logged = ErrorOf(calls[Len(calls) - 1])

\* the sync failed, the error comment failed too, and the event handler
\* logged the failure of the sync
C9_Witness ==
  /\ inv.caller = "webhook"
  /\ inv.pc = "raised"
  /\ inv.comment_error # ""
  /\ inv.error = "sync_failed"
  /\ task.state = "finished"
  /\ task.logged = "sync_failed"

----------------------------------------------------------------------------
(* C10 *)

\* C10, as stated: _process_pr_comment_for_jira does not post the error
\* comment itself, so an invocation from the manual trigger posts none.
C10_NoErrorCommentOnManualPath ==
  inv.caller = "manual" => ErrorComments(inv.calls) = {}

\* C10, amended: _process_pr_comment_for_jira itself catches the failure,
\* attempts the error comment once and raises the original error again; so
\* on the manual-trigger path an upstream failure is surfaced in the 500
\* response with the original error message, after one error comment was
\* attempted on the pull request.
C10_ManualFailureCommentsAndSurfaces ==
  inv.caller = "manual" =>
    LET calls == inv.calls
        fails == Failures(calls)
        errs == ErrorComments(calls)
    IN /\ inv.pc = "error_comment" => (http.status = 0 /\ errs = {})
       /\ inv.pc = "raised" =>
            /\ fails = {Len(calls) - 1}
            /\ errs = {Len(calls)}
            /\ inv.error = ErrorOf(calls[Len(calls) - 1])
            /\ http.status # 0 =>
                 (http.status = 500 /\ http.detail = ErrorOf(calls[Len(calls) - 1]))
       /\ fails # {} => inv.pc \in {"error_comment", "raised"}

\* the manual trigger answered 500 for a pull request that was not found,
\* after the error comment was posted
C10_Witness ==
  /\ inv.caller = "manual"
  /\ inv.pc = "raised"
  /\ http.status = 500
  /\ http.detail = "pr_not_found"
  /\ inv.calls[Len(inv.calls)].op = "add_comment:error"
  /\ inv.calls[Len(inv.calls)].ok

----------------------------------------------------------------------------
(* C11 *)

\* a step of the client that changes the cache: the operation it belongs to
C11_Step ==
  issues' # issues =>
    LET o == inv'.ops[Len(inv'.ops)]
    IN /\ inv'.issues0 = issues
       /\ o.ok
       /\ \/ /\ o.op = "sync_issues"
             /\ o.fetched = upstream
             /\ issues' = o.fetched
          \/ /\ o.op = "create_issue"
             /\ ~IsNone(o.issue)
             /\ issues' = <<Get(o.issue)>> \o issues
             /\ upstream' = <<Get(o.issue)>> \o upstream
             /\ \A k \in 1..Len(issues) : issues[k].key # Get(o.issue).key

\* C11: over any sequence of sync_issues, create_issue and read operations
\* (find_similar_issues, needs_sync), every change of the cache is either
\* its replacement by the list a successful sync_issues fetched or the
\* insertion of the one issue a successful create_issue created, in front of
\* the entries it held, which stay as they were; no other operation, and no
\* failed one, changes the cache.
C11_OnlyReplacedOrPrepended == [][C11_Step]_vars

\* a sync replaced a cache that held a created issue in front of others by
\* another list
C11_Witness ==
  /\ Len(inv.ops) = 2
  /\ inv.ops[1].op = "create_issue"
  /\ inv.ops[1].ok
  /\ inv.ops[2].op = "sync_issues"
  /\ inv.ops[2].ok
  /\ Len(inv.issues0) > 1
  /\ issues # inv.issues0

----------------------------------------------------------------------------
(* C12 *)

\* the issues of the project when k of the issues created so far were
\* still to be created: what a search returned at that time
SnapshotBefore(k) == SubSeq(upstream, k + 1, Len(upstream))

\* C12: with the background tasks interleaved at every collaborator call,
\* and between the search of sync_issues and the assignment of its result,
\* the cache is at every moment the complete list one search returned, the
\* one the last sync_issues to finish assigned, with the issues created
\* since then (each once) in front of it; before the first sync it holds
\* created issues only.  It is never a mix of two search results.
C12_SnapshotPlusCreated ==
  /\ IsNone(last_sync) => inv.base = <<>>
  /\ ~IsNone(last_sync) => \E k \in 0..created : inv.base = SnapshotBefore(k)
  /\ \A i \in 1..MaxTasks :
       task[i].pc = "store" => \E k \in 0..created : task[i].fetched = SnapshotBefore(k)
  /\ \E n \in 0..Len(issues) :
       /\ SubSeq(issues, n + 1, Len(issues)) = inv.base
       /\ \A j \in 1..n :
            /\ issues[j].key[1] = "NEW"
            /\ \E m \in 1..created : upstream[m] = issues[j]
       /\ \A j, l \in 1..n : j # l => issues[j] # issues[l]

\* a task assigned a list it had fetched before another task created an
\* issue: the last sync to finish wins and the cache lacks the created issue
C12_Witness ==
  /\ created > 0
  /\ ~IsNone(last_sync)
  /\ inv.base # <<>>
  /\ inv.base # upstream
  /\ issues = inv.base
  /\ \E i \in 1..MaxTasks : task[i].pc = "create"

----------------------------------------------------------------------------
(* C13 *)

\* C13: needs_sync() returns true exactly when the cache was never synced
\* or the last sync is strictly more than five minutes old; so it is true
\* for a new client (empty cache, no time of sync) and false exactly five
\* minutes after a sync.
C13_NeedsSyncExactly ==
  (inv.ops # <<>> /\ LastOp.op = "needs_sync") =>
    /\ last_sync = inv.last_sync0
    /\ LastOp.answer <=>
         (IsNone(last_sync) \/ LastOp.at - Get(last_sync) > SyncWindow)
    /\ (issues = <<>> /\ IsNone(last_sync)) => LastOp.answer
    /\ (~IsNone(last_sync) /\ LastOp.at - Get(last_sync) = SyncWindow) => ~LastOp.answer

\* needs_sync() returned false exactly five minutes after a sync and true
\* one minute later
C13_Witness ==
  /\ Len(inv.ops) = 2
  /\ inv.ops[1].op = "needs_sync"
  /\ inv.ops[2].op = "needs_sync"
  /\ ~IsNone(last_sync)
  /\ inv.ops[1].at = Get(last_sync) + SyncWindow
  /\ ~inv.ops[1].answer
  /\ inv.ops[2].at = inv.ops[1].at + 1
  /\ inv.ops[2].answer

----------------------------------------------------------------------------
(* C14 *)

\* C14: after create_issue returns, the created issue is at index 0 of the
\* cache, the entries the cache held follow it in the order they had, and
\* last_sync is what it was, so needs_sync() answers as it would have
\* without the creation, at any time.
C14_CreatedAtFront ==
  (inv.ops # <<>> /\ LastOp.op = "create_issue" /\ LastOp.ok) =>
    /\ ~IsNone(LastOp.issue)
    /\ Len(issues) = Len(inv.issues0) + 1
    /\ issues[1] = Get(LastOp.issue)
    /\ \A k \in 1..Len(inv.issues0) : issues[k + 1] = inv.issues0[k]
    /\ last_sync = inv.last_sync0
    /\ \A t \in 0..MaxTime : needs_sync(last_sync, t) = needs_sync(inv.last_sync0, t)

\* an issue was created by a client whose cache held two issues of a sync
C14_Witness ==
  /\ inv.ops # <<>>
  /\ LastOp.op = "create_issue"
  /\ LastOp.ok
  /\ Len(inv.issues0) = 2
  /\ inv.issues0[1] # inv.issues0[2]
  /\ ~IsNone(last_sync)

----------------------------------------------------------------------------
(* C15 *)

\* C15: when sync_issues is called twice in a row and the project returns
\* the same list both times, the cache after the second call is the cache
\* after the first: the fetched list, in its order, each issue once.
C15_SyncTwiceIsSyncOnce ==
  (/\ Len(inv.ops) = 2
   /\ inv.ops[1].op = "sync_issues" /\ inv.ops[1].ok
   /\ inv.ops[2].op = "sync_issues" /\ inv.ops[2].ok
   /\ inv.ops[1].fetched = inv.ops[2].fetched) =>
    /\ issues = inv.issues0
    /\ issues = inv.ops[1].fetched

\* two syncs in a row fetched the same two issues
C15_Witness ==
  /\ Len(inv.ops) = 2
  /\ inv.ops[1].op = "sync_issues" /\ inv.ops[1].ok
  /\ inv.ops[2].op = "sync_issues" /\ inv.ops[2].ok
  /\ inv.ops[1].fetched = inv.ops[2].fetched
  /\ Len(inv.ops[2].fetched) = 2

----------------------------------------------------------------------------
(* C16 *)

\* the add_comment calls of a log
AddComments(calls) ==
  CallsOf(calls, "add_comment:similar") \cup CallsOf(calls, "add_comment:created")
    \cup ErrorComments(calls)

\* C16: one invocation of _process_pr_comment_for_jira calls
\* get_pull_request, sync_issues and create_issue at most once each and
\* add_comment at most twice, one comment for the result and one for an
\* error; after a call has failed the only call that follows is the error
\* comment, once, so no failed call is made again.
C16_NoRetries ==
  inv.pc # "idle" =>
    LET calls == inv.calls
    IN /\ Cardinality(CallsOf(calls, "get_pull_request")) <= 1
       /\ Cardinality(CallsOf(calls, "sync_issues")) <= 1
       /\ Cardinality(CallsOf(calls, "create_issue")) <= 1
       /\ Cardinality(CallsOf(calls, "add_comment:similar")
                        \cup CallsOf(calls, "add_comment:created")) <= 1
       /\ Cardinality(ErrorComments(calls)) <= 1
       /\ Cardinality(AddComments(calls)) <= 2
       /\ \A k \in 1..Len(calls) :
            ~calls[k].ok =>
              /\ \A j \in (k + 1)..Len(calls) : calls[j].op = "add_comment:error"
              /\ calls[k].op = "add_comment:error" => k = Len(calls)

\* an invocation that synced and created made two add_comment calls: the
\* "created" comment, which failed, and the error comment
C16_Witness ==
  /\ inv.pc = "raised"
  /\ Cardinality(AddComments(inv.calls)) = 2
  /\ CallsOf(inv.calls, "sync_issues") # {}
  /\ CallsOf(inv.calls, "create_issue") # {}
  /\ CallsOf(inv.calls, "add_comment:created") # {}

----------------------------------------------------------------------------
(* C17 *)

\* C17: when get_pull_request does not return the pull request, the
\* invocation raises "Pull request #n not found" to its caller (the event
\* handler, which logs it, or the manual trigger, which answers 500 with
\* it) and returns no result; it makes no sync_issues, find_similar_issues
\* or create_issue call and posts no result comment, and the cache is as it
\* was at the call.
C17_MissingPullRequestRaises ==
  (\E k \in CallsOf(inv.calls, "get_pull_request") : ~inv.calls[k].ok) =>
    LET calls == inv.calls
    IN /\ calls[1].op = "get_pull_request"
       /\ inv.error = "pr_not_found"
       /\ inv.pc \in {"error_comment", "raised"}
       /\ IsNone(inv.result)
       /\ \A k \in 2..Len(calls) : calls[k].op = "add_comment:error"
       /\ CallsOf(calls, "sync_issues") = {}
       /\ CallsOf(calls, "find_similar_issues") = {}
       /\ CallsOf(calls, "create_issue") = {}
       /\ CallsOf(calls, "add_comment:similar") = {}
       /\ CallsOf(calls, "add_comment:created") = {}
       /\ issues = inv.issues0
       /\ last_sync = inv.last_sync0
       /\ (inv.caller = "webhook" /\ task.state = "finished") =>
            task.logged = "pr_not_found"
       /\ (inv.caller = "manual" /\ http.status # 0) =>
            (http.status = 500 /\ http.detail = "pr_not_found")

\* a comment on a pull request that does not exist asked for an issue: the
\* event handler logged "not found", with a stale cache left as it was
C17_Witness ==
  /\ inv.caller = "webhook"
  /\ inv.pr_number = 3
  /\ inv.pc = "raised"
  /\ task.state = "finished"
  /\ task.logged = "pr_not_found"
  /\ issues # <<>>
  /\ needs_sync(last_sync, now)

----------------------------------------------------------------------------
(* C18 *)

\* the payload of an issue_comment event asks for the processing: a new
\* comment, on a pull request, that is a creation request
IssueCommentAsks(payload) ==
  /\ payload.shape = "comment"
  /\ payload.action = "created"
  /\ payload.is_pr
  /\ is_create_jira_comment(payload.comment)

C18_State ==
  (task.state # "none" /\ task.event_type = "issue_comment") =>
    /\ IssueCommentAsks(task.payload) =>
         /\ task.state \in {"running", "finished"} => inv.pc # "idle"
         /\ inv.pc # "idle" =>
              /\ inv.caller = "webhook"
              /\ inv.pr_number = task.payload.number
              /\ inv.comment = task.payload.comment
    /\ ~IssueCommentAsks(task.payload) =>
         /\ inv = NoInv
         /\ task.state \in {"scheduled", "finished"}

C18_Step ==
  (task.state # "none" /\ task.event_type = "issue_comment"
     /\ ~IssueCommentAsks(task.payload)) =>
    (issues' = issues /\ last_sync' = last_sync /\ upstream' = upstream)

\* C18: the task of an issue_comment event calls
\* _process_pr_comment_for_jira, with the number of the issue and the body
\* of the comment, if and only if the action is "created", the issue is a
\* pull request and the body is a creation request; in every other case
\* there is no invocation, hence no external call, and no step of the task
\* changes the cache or the project.
C18_IssueCommentTriggers == []C18_State /\ [][C18_Step]_vars

\* the task of a new comment on a pull request that asked for an issue has
\* finished, and the invocation it made created one
C18_Witness ==
  /\ task.state = "finished"
  /\ task.event_type = "issue_comment"
  /\ IssueCommentAsks(task.payload)
  /\ inv.pc = "returned"
  /\ Get(inv.result).action = "created"
  /\ inv.comment = task.payload.comment

----------------------------------------------------------------------------
(* C19 *)

\* the payload of a pull_request event asks for the processing: the pull
\* request was opened and carries the label "needs-jira"
PullRequestAsks(payload) ==
  /\ payload.shape = "pr"
  /\ payload.action = "opened"
  /\ payload.needs_jira

C19_State ==
  (task.state # "none" /\ task.event_type = "pull_request") =>
    /\ PullRequestAsks(task.payload) =>
         /\ task.state \in {"running", "finished"} => inv.pc # "idle"
         /\ inv.pc # "idle" =>
              /\ inv.caller = "webhook"
              /\ inv.pr_number = task.payload.number
              /\ inv.comment = AutoComment(task.payload.title)
              /\ is_create_jira_comment(inv.comment)
              /\ inv.threshold = DefaultThreshold
              /\ ~IsNone(inv.details) =>
                   /\ Get(inv.details).summary = task.payload.title
                   /\ Get(inv.details).issue_type = "Task"
              /\ inv.pc = "returned" => Get(inv.result).action # "skipped"
    /\ ~PullRequestAsks(task.payload) =>
         /\ inv = NoInv
         /\ task.state \in {"scheduled", "finished"}

C19_Step ==
  (task.state # "none" /\ task.event_type = "pull_request"
     /\ ~PullRequestAsks(task.payload)) =>
    (issues' = issues /\ last_sync' = last_sync /\ upstream' = upstream)

\* C19: the task of a pull_request event whose action is "opened" and whose
\* pull request carries the label "needs-jira" calls
\* _process_pr_comment_for_jira, the procedure a comment starts, with the
\* number of the pull request and a comment text made from its title, which
\* is a creation request with that title as summary and the type Task; with
\* any other action, or without the label, there is no invocation and no
\* step of the task changes the cache or the project.
C19_LabelledPullRequestTriggers == []C19_State /\ [][C19_Step]_vars

\* the task of an opened pull request with the label has finished; the
\* invocation it made returned a result for the title of the pull request
C19_Witness ==
  /\ task.state = "finished"
  /\ task.event_type = "pull_request"
  /\ PullRequestAsks(task.payload)
  /\ inv.pc = "returned"
  /\ Get(inv.details).summary = task.payload.title
  /\ Get(inv.result).action \in {"found_similar", "created"}

----------------------------------------------------------------------------
(* C20 *)

\* the request carried the signature of its body, a JSON body and an event
\* type other than issue_comment and pull_request
OtherEventDelivered ==
  /\ http.endpoint = "webhook"
  /\ SignatureMatches(http)
  /\ http.body.utf8
  /\ http.body.json
  /\ http.event_type \notin {"issue_comment", "pull_request"}

C20_State ==
  OtherEventDelivered =>
    /\ http.status = 200
    /\ task.state \in {"scheduled", "finished"}
    /\ task.event_type = http.event_type
    /\ task.logged = ""
    /\ ~task.escaped
    /\ inv = NoInv

C20_Step ==
  OtherEventDelivered =>
    (issues' = issues /\ last_sync' = last_sync /\ upstream' = upstream)

\* C20: a webhook request with a valid signature and a JSON body whose
\* event type is neither issue_comment nor pull_request is answered with
\* the success acknowledgement; its task makes no invocation of
\* _process_pr_comment_for_jira, hence no external call, logs no error, and
\* no step changes the cache items, last_sync or the project.
C20_OtherEventsOnlyAcknowledged == []C20_State /\ [][C20_Step]_vars

\* the task of a push event has finished; its payload would have started
\* the processing as an issue_comment event
C20_Witness ==
  /\ OtherEventDelivered
  /\ http.event_type = "push"
  /\ task.state = "finished"
  /\ IssueCommentAsks(task.payload)
  /\ issues # <<>>

----------------------------------------------------------------------------
(* C21 *)

\* C21: POST /trigger-jira-creation checks no signature and schedules no
\* background task; it answers only after _process_pr_comment_for_jira has
\* ended: 200 with the result when it returned, 500 with the text of the
\* error when it raised, and never 200 for an invocation that raised.
C21_ManualTriggerAnswersOutcome ==
  http.endpoint = "manual" =>
    /\ IsNone(http.signature)
    /\ http.raised = ""
    /\ ~http.scheduled
    /\ task = NoTask
    /\ inv.caller = "manual"
    /\ http.status \in {0, 200, 500}
    /\ http.status # 0 => inv.pc \in {"returned", "raised"}
    /\ http.status = 200 <=> (http.status # 0 /\ inv.pc = "returned")
    /\ http.status = 200 =>
         /\ ~IsNone(inv.result)
         /\ http.detail = Get(inv.result).action
         /\ inv.error = ""
    /\ http.status = 500 =>
         /\ inv.pc = "raised"
         /\ http.detail = inv.error
         /\ inv.error # ""
         /\ IsNone(inv.result)

\* the manual trigger answered 500 with the failure of the sync, not with
\* the failure of the error comment that followed it
C21_Witness ==
  /\ http.endpoint = "manual"
  /\ http.status = 500
  /\ http.detail = "sync_failed"
  /\ inv.comment_error # ""


----------------------------------------------------------------------------
(* The scorer *)

Scored == srv = "scorer" /\ ~IsNone(inv.results)

Results == Get(inv.results)

\* the three field scores of a cached issue against the search text, as
\* fractions in thousandths; a missing description and an empty label list
\* score 0
FieldScore(field, issue) ==
  CASE field = "summary" -> 10 * token_sort_ratio(inv.search_text, issue.summary)
    [] field = "description" ->
         IF IsNone(issue.description) THEN 0
         ELSE 10 * token_sort_ratio(inv.search_text, Get(issue.description))
    [] field = "labels" ->
         IF issue.labels = <<>> THEN 0
         ELSE 10 * token_sort_ratio(inv.search_text, LabelWords(issue.labels))

\* 0.7 * s + 0.3 * d + 0.2 * l, in thousandths
WeightedSum(issue) ==
  (7 * FieldScore("summary", issue) + 3 * FieldScore("description", issue)
     + 2 * FieldScore("labels", issue)) \div 10

ResultsFor(issue) == {k \in 1..Len(Results) : Results[k].issue = issue}

CachePosition(issue) == CHOOSE k \in 1..Len(issues) : issues[k] = issue

(* C22 *)
\* Claim C22: the combined score of a cached issue is min(1.0, 0.7 s + 0.3 d
\* + 0.2 l), where d is 0 for a missing description and l is 0 for an empty
\* label list; the issue is returned, once and with that score, exactly when
\* the score reaches the threshold, so every returned score lies between the
\* threshold and 1.
C22_CombinedScoreAndThreshold ==
  Scored =>
    /\ \A k \in 1..Len(issues) :
         LET issue == issues[k]
             combined == Min(1000, WeightedSum(issue))
         IN /\ Cardinality(ResultsFor(issue)) = IF combined >= inv.threshold THEN 1 ELSE 0
            /\ \A r \in ResultsFor(issue) : Results[r].score = combined
    /\ \A r \in 1..Len(Results) :
         /\ \E k \in 1..Len(issues) : issues[k] = Results[r].issue
         /\ inv.threshold <= Results[r].score
         /\ Results[r].score <= 1000

C22_Witness ==
  /\ Scored
  /\ inv.threshold = 700
  /\ \E r \in 1..Len(Results) :
       Results[r].score = 1000 /\ WeightedSum(Results[r].issue) > 1000
  /\ \E r \in 1..Len(Results) :
       /\ IsNone(Results[r].issue.description)
       /\ Results[r].issue.labels = <<>>
       /\ Results[r].score = inv.threshold
  /\ \E k \in 1..Len(issues) : ResultsFor(issues[k]) = {}

(* C23 *)
\* Claim C23: the matched fields of a returned issue are exactly those of
\* summary, description and labels whose own score reaches the threshold,
\* whatever the combined score; an issue can be returned with no matched
\* field at all.
C23_MatchedFieldsPerField ==
  Scored =>
    \A r \in 1..Len(Results) :
      LET fields == Results[r].matched_fields
      IN /\ \A f \in {"summary", "description", "labels"} :
              (\E j \in 1..Len(fields) : fields[j] = f)
                <=> FieldScore(f, Results[r].issue) >= inv.threshold
         /\ \A j \in 1..Len(fields) : fields[j] \in {"summary", "description", "labels"}
         /\ \A j, k \in 1..Len(fields) : j # k => fields[j] # fields[k]

C23_Witness ==
  /\ Scored
  /\ inv.threshold = 700
  /\ \E r \in 1..Len(Results) :
       Results[r].matched_fields = <<>> /\ Results[r].score >= inv.threshold
  /\ \E r \in 1..Len(Results) :
       Results[r].matched_fields = <<"summary", "description", "labels">>

(* C24 *)
\* Claim C24: the returned list is in descending order of score, and
\* returned issues of equal score are in the order they have in the cache.
C24_SortedDescendingStable ==
  Scored =>
    \A j, k \in 1..Len(Results) :
      j < k =>
        /\ Results[j].score >= Results[k].score
        /\ Results[j].score = Results[k].score =>
             CachePosition(Results[j].issue) < CachePosition(Results[k].issue)

C24_Witness ==
  /\ Scored
  /\ Len(Results) = 3
  /\ Results[1].score > Results[2].score
  /\ Results[2].score = Results[3].score
  /\ CachePosition(Results[1].issue) > CachePosition(Results[3].issue)

----------------------------------------------------------------------------
(* C25 *)

\* a step in which find_similar_issues returned
FindReturned ==
  /\ inv' # inv
  /\ inv'.ops[Len(inv'.ops)].op = "find_similar_issues"

\* Claim C25: find_similar_issues only reads: it leaves the cached issues
\* and the time of the last synchronisation as they were, does not
\* synchronise and calls nothing outside (the project is as before), and on
\* an empty cache it returns the empty list.
C25_Step ==
  FindReturned =>
    /\ issues' = issues
    /\ last_sync' = last_sync
    /\ upstream' = upstream
    /\ created' = created
    /\ inv'.issues0 = issues
    /\ inv'.last_sync0 = last_sync
    /\ issues = <<>> => inv'.ops[Len(inv'.ops)].matches = <<>>

C25_FindOnlyReads == [][C25_Step]_vars

\* two searches in a row, the first without a match and the second with
\* one, in a cache that a synchronisation would have changed
C25_Witness ==
  /\ srv = "client"
  /\ Len(inv.ops) = 2
  /\ inv.ops[1].op = "find_similar_issues" /\ inv.ops[1].matches = <<>>
  /\ inv.ops[2].op = "find_similar_issues" /\ inv.ops[2].matches # <<>>
  /\ issues = inv.issues0
  /\ issues # upstream

----------------------------------------------------------------------------
(* The extraction *)

Extracted == srv = "extractor" /\ ~IsNone(inv.details)

Details == Get(inv.details)

\* the custom labels each comment asks for, as a reader of the comment
\* lists them
AskedLabels(comment) ==
  CASE comment = CommentFields -> <<"frontend", "urgent">>
    [] comment = CommentLabels -> <<"needs review", "", "ui">>
    [] OTHER -> <<>>

\* the issue type each comment names, if any
AskedType(comment) ==
  CASE comment \in {CommentSummary, CommentFields} -> Some("Bug")
    [] comment = CommentLabels -> Some("Epic")
    [] comment = CommentStory -> Some("Story")
    [] OTHER -> None

(* C26 *)
\* Claim C26: for every comment the extraction returns an issue type among
\* Bug, Task, Story and Epic, which is Task when the comment names no type;
\* labels that start with "github-pr" and go on with the comment's own
\* labels, trimmed, in the order of the comment; and as summary the
\* comment's summary when it has one, else "[GitHub PR] " and the title.
C26_ExtractionDefaults ==
  /\ (srv = "extractor" /\ IsNone(inv.details)) => ENABLED Extract
  /\ Extracted =>
       /\ Details.issue_type \in {"Bug", "Task", "Story", "Epic"}
       /\ Details.issue_type =
            IF IsNone(AskedType(inv.comment)) THEN "Task"
            ELSE Get(AskedType(inv.comment))
       /\ Head(Details.labels) = "github-pr"
       /\ Tail(Details.labels) = AskedLabels(inv.comment)
       /\ Details.summary =
            IF IsNone(inv.comment.summary) THEN {"github", "pr"} \cup inv.pr_title
            ELSE Get(inv.comment.summary)

C26_Witness ==
  /\ Extracted
  /\ inv.comment = CommentLabels
  /\ Details.issue_type = "Epic"
  /\ Details.labels = <<"github-pr", "needs review", "", "ui">>
  /\ Details.summary = {"github", "pr", "docs"}

(* C27 *)
\* Claim C27: the description is, in this order, the preamble, the link to
\* the pull request only when there is a number, the body of the pull
\* request only when there is a body, and the comment, which is always
\* there and always last; a part that is missing leaves nothing, not even
\* an empty block.
C27_DescriptionParts ==
  Extracted =>
    LET d == Details.description
        Where(part) == {k \in 1..Len(d) : d[k].part = part}
    IN /\ \A k \in 1..Len(d) :
            d[k].part \in {"preamble", "original", "description", "comment"}
       /\ \A part \in {"preamble", "original", "description", "comment"} :
            Cardinality(Where(part)) <= 1
       /\ Where("preamble") = {1}
       /\ Where("comment") = {Len(d)}
       /\ Where("original") # {} <=> ~IsNone(inv.pr_number)
       /\ Where("description") # {}
            <=> (~IsNone(inv.pr_body) /\ Get(inv.pr_body) # {})
       /\ \A j \in Where("original"), k \in Where("description") : j < k
       /\ \A k \in 1..Len(d) : d[k].words # {}
       /\ d[Len(d)].words = {"comment"} \cup inv.comment.words
       /\ \A k \in Where("original") : d[k].words = {"original"} \cup inv.pr_title
       /\ \A k \in Where("description") :
            d[k].words = {"description"} \cup Get(inv.pr_body)

\* a description with all four parts
C27_Witness ==
  /\ Extracted
  /\ Len(Details.description) = 4
  /\ inv.pr_number = Some(5)
  /\ inv.pr_body = Some({"update", "docs"})

----------------------------------------------------------------------------
(* C28 *)

Verified == srv = "verifier" /\ inv.result # ""

\* Claim C28: the signature check accepts a body and a header value exactly
\* when the value is "sha256=" followed by the HMAC-SHA256 of the body under
\* the secret: the signature of the body passes; the signature of any other
\* body and the signature with one character changed do not pass; a missing
\* header value is answered False.
C28_AcceptsExactlyTheSignature ==
  Verified =>
    /\ inv.result \in {"True", "False", "TypeError"}
    /\ inv.result = "True"
         <=> inv.signature = Some(<<"sha256=", <<"hmac-sha256", "secret", inv.body>>>>)
    /\ IsNone(inv.signature) => inv.result = "False"
    /\ \A other \in Bodies \ {inv.body} :
         inv.signature = Some(ExpectedSignature(other)) => inv.result = "False"
    /\ \A at \in {1, 8}, char \in {83, 103, 233} :
         inv.signature = Some(Flipped(ExpectedSignature(inv.body), at, char))
           => inv.result # "True"

\* the signature with one character changed was checked and not accepted
C28_Witness ==
  /\ Verified
  /\ inv.signature = Some(Flipped(ExpectedSignature(inv.body), 8, 103))
  /\ inv.result = "False"

----------------------------------------------------------------------------
(* C29 *)

\* Claim C29: with the issue X-1 "Fix login page styling" in the cache, the
\* comment "create jira issue - Summary: Fix login styling" processed with
\* threshold 0.3 returns found_similar for X-1 with a score of at least
\* 0.3, and does not return created.
C29_StylingFindsX1 ==
  (/\ srv = "direct"
   /\ inv.comment = CommentStyling
   /\ inv.threshold = 300
   /\ inv.issues0 = <<IssueX1>>
   /\ inv.pc = "returned") =>
    /\ Get(inv.result).action = "found_similar"
    /\ Get(inv.result).issue = Some(IssueX1)
    /\ Get(inv.result).similarity >= 300

----------------------------------------------------------------------------
(* C30 *)

\* Claim C30: the construction of the Jira client succeeds for every
\* auth_method: "bearer" gives token authentication with the API token,
\* "basic" gives basic authentication with the username and the token, and
\* any other value gives basic authentication too instead of a failure.
C30_EveryAuthMethodConstructs ==
  (srv = "constructor" /\ inv.pc \notin {"create", "fallback", "headers"}) =>
    /\ inv.pc = "constructed"
    /\ inv.jira =
         IF inv.auth_method = "bearer"
         THEN [auth |-> "token_auth", username |-> "", secret |-> inv.api_token]
         ELSE [auth |-> "basic_auth", username |-> inv.username,
               secret |-> inv.api_token]

----------------------------------------------------------------------------
(* C31 *)

\* the required variables that have no value or the empty value
EmptySettings == {name \in RequiredNames : inv.env[name] \in {None, Some("")}}

\* Claim C31: get_required_env_var raises ValueError, naming the variable,
\* exactly when the variable is unset or empty; validate_config raises
\* ValueError, naming every empty field, exactly when a required field is
\* empty; with all eight set neither raises; and get_config never returns a
\* configuration with an empty required field.
C31_ValidationExactlyOnEmpty ==
  srv = "config" =>
    /\ inv.op = "get_required_env_var" =>
         /\ inv.raised = "ValueError" <=> inv.name \in EmptySettings
         /\ inv.raised = "ValueError" => inv.named = <<inv.name>>
         /\ inv.raised \in {"", "ValueError"}
    /\ inv.op = "validate_config" =>
         /\ inv.raised = "ValueError" <=> EmptySettings # {}
         /\ {inv.named[k] : k \in 1..Len(inv.named)} = EmptySettings
         /\ Len(inv.named) = Cardinality(EmptySettings)
         /\ inv.raised \in {"", "ValueError"}
    /\ inv.op = "get_config" =>
         /\ EmptySettings # {} =>
              (inv.raised = "ValueError" /\ Len(inv.named) = 1
                 /\ inv.named[1] \in EmptySettings)
         /\ inv.raised = "" =>
              \A name \in RequiredNames :
                inv.config[name] # "" /\ Some(inv.config[name]) = inv.env[name]

\* validate_config named three empty fields, one unset and two empty
C31_Witness ==
  /\ srv = "config"
  /\ inv.op = "validate_config"
  /\ inv.named = <<"JIRA_HOST", "JIRA_USERNAME", "GITHUB_TOKEN">>
  /\ inv.env["JIRA_HOST"] = Some("")
  /\ inv.env["GITHUB_TOKEN"] = None

----------------------------------------------------------------------------
(* C32 *)

\* the invocation's sync_issues call failed
SyncFailed == \E k \in CallsOf(inv.calls, "sync_issues") : ~inv.calls[k].ok

\* while the failing invocation lasts: the cache and the time of the last
\* sync are those of its start, the cache is still stale, nothing was scored
\* and nothing created, and the invocation ends by raising the sync error
C32_State ==
  SyncFailed =>
    /\ issues = inv.issues0
    /\ last_sync = inv.last_sync0
    /\ IsNone(last_sync) \/ Get(last_sync) + SyncWindow < now
    /\ CallsOf(inv.calls, "find_similar_issues") = {}
    /\ CallsOf(inv.calls, "create_issue") = {}
    /\ inv.matches = <<>> /\ IsNone(inv.new_issue) /\ IsNone(inv.result)
    /\ inv.error = "sync_failed"
    /\ inv.pc \in {"error_comment", "raised"}

\* a stale cache stays stale until a sync stores a list, and an invocation
\* that reaches the freshness check on a stale cache calls sync_issues
C32_Step ==
  LET stale == IsNone(last_sync) \/ Get(last_sync) + SyncWindow < now
      stale_after == IsNone(last_sync') \/ Get(last_sync') + SyncWindow < now'
  IN /\ (stale /\ ~stale_after) =>
          /\ last_sync' = Some(now)
          /\ issues' = upstream
          /\ \/ srv = "boot"
             \/ \E k \in CallsOf(inv'.calls, "sync_issues") : inv'.calls[k].ok
     /\ (stale /\ inv.pc = "check_sync" /\ inv'.pc # "check_sync") =>
          /\ Len(inv'.calls) = Len(inv.calls) + 1
          /\ inv'.calls[Len(inv'.calls)].op = "sync_issues"
     /\ (~SyncFailed /\ SyncFailed') =>
          /\ issues' = issues /\ last_sync' = last_sync /\ upstream' = upstream
          /\ stale /\ stale_after

\* Claim C32: a failed sync changes nothing. The error propagates, the
\* cached issues and the time of the last sync keep their values, so
\* needs_sync answers as before and the next invocation that reaches the
\* freshness check calls sync_issues again; the failing invocation scores
\* nothing and creates nothing.
C32_FailedSyncChangesNothing == []C32_State /\ [][C32_Step]_vars

\* the sync of an invocation failed on a cache that held issues, and the
\* invocation raised
C32_Witness ==
  /\ SyncFailed
  /\ inv.pc = "raised"
  /\ issues # <<>>
  /\ ~IsNone(last_sync)

----------------------------------------------------------------------------
(* C33 *)

\* the comment about the created issue failed
CreatedCommentFailed ==
  \E k \in CallsOf(inv.calls, "add_comment:created") : ~inv.calls[k].ok

\* Claim C33: a creation is not rolled back by a later failure. When
\* create_issue succeeded and the comment about the created issue fails, the
\* invocation raises, after one attempt at the error comment, and does not
\* return "created"; the new issue is in the project and is the first of
\* the cache.
C33_CreationNotRolledBack ==
  CreatedCommentFailed =>
    /\ \E k \in CallsOf(inv.calls, "create_issue") : inv.calls[k].ok
    /\ ~IsNone(inv.new_issue)
    /\ issues # <<>> /\ Head(issues) = Get(inv.new_issue)
    /\ upstream # <<>> /\ Head(upstream) = Get(inv.new_issue)
    /\ \A k \in 1..Len(inv.issues0) : inv.issues0[k] # Get(inv.new_issue)
    /\ created >= 1
    /\ IsNone(inv.result)
    /\ inv.error = "comment_failed"
    /\ inv.pc \in {"error_comment", "raised"}
    /\ inv.pc = "error_comment" => ErrorComments(inv.calls) = {}
    /\ inv.pc = "raised" =>
         (Cardinality(ErrorComments(inv.calls)) = 1
            /\ ErrorComments(inv.calls) = {Len(inv.calls)})

\* the comment about the created issue failed, the error comment was
\* posted and the invocation raised
C33_Witness ==
  /\ CreatedCommentFailed
  /\ inv.pc = "raised"
  /\ inv.comment_error = ""
  /\ Len(issues) >= 2

----------------------------------------------------------------------------
(* C34 *)

\* Claim C34: with unique keys in the project, and with the replacement of
\* the cache by a sync and the insertion of a created issue each done in
\* one piece, no interleaving of concurrent tasks leaves two cached issues
\* with the same key.
C34_NoDuplicateKeys ==
  srv = "serving" =>
    /\ \A j, k \in 1..Len(upstream) : j # k => upstream[j].key # upstream[k].key
    /\ \A j, k \in 1..Len(issues) : j # k => issues[j].key # issues[k].key

\* an issue created by one task is in front of a synced list while another
\* task is between its search and its assignment
C34_Witness ==
  /\ srv = "serving"
  /\ Len(issues) >= 2
  /\ issues[1].key[1] = "NEW"
  /\ \E i \in 1..MaxTasks : task[i].pc = "store" /\ task[i].fetched # upstream

----------------------------------------------------------------------------
(* C35 *)

\* Claim C35: an invocation made by the webhook dispatch never returns
\* "skipped": the comment of an issue_comment event has passed the same
\* check before, and the comment written for a labelled pull request holds
\* a trigger phrase whatever the title; "skipped" is returned only to the
\* manual trigger.
C35_WebhookNeverSkipped ==
  /\ inv.caller = "webhook" =>
       /\ task.state # "none"
       /\ \E trigger \in Triggers : trigger \in inv.comment.phrases
       /\ inv.pc = "returned" => Get(inv.result).action \in {"found_similar", "created"}
  /\ (inv.pc = "returned" /\ Get(inv.result).action = "skipped") =>
       (inv.caller = "manual" /\ http.endpoint = "manual")

\* the invocation made for a labelled pull request has returned
C35_Witness ==
  /\ inv.caller = "webhook"
  /\ task.event_type = "pull_request"
  /\ inv.comment = AutoComment(task.payload.title)
  /\ inv.pc = "returned"
  /\ Get(inv.result).action = "created"

----------------------------------------------------------------------------
(* C36 *)

\* while the cache was never synced it is empty, and no invocation has
\* scored or created anything
C36_State ==
  IsNone(last_sync) =>
    /\ issues = <<>>
    /\ inv.pc \notin {"find", "post_similar", "create", "post_created"}
    /\ CallsOf(inv.calls, "find_similar_issues") = {}
    /\ CallsOf(inv.calls, "create_issue") = {}
    /\ \A k \in CallsOf(inv.calls, "sync_issues") : ~inv.calls[k].ok

\* the server starts whether the initial sync fails or not; the first time
\* of a sync is set together with the list of the project; an invocation
\* that reaches the freshness check of a cache never synced calls
\* sync_issues
C36_Step ==
  /\ srv = "boot" => ENABLED StartUnsynced
  /\ (srv = "boot" /\ srv' # "boot") =>
       /\ srv' = "serving"
       /\ \/ (last_sync' = None /\ issues' = <<>>)
          \/ (last_sync' = Some(now) /\ issues' = upstream)
  /\ (IsNone(last_sync) /\ ~IsNone(last_sync')) =>
       (last_sync' = Some(now) /\ issues' = upstream)
  /\ (IsNone(last_sync) /\ inv.pc = "check_sync" /\ inv'.pc # "check_sync") =>
       /\ inv'.needed_sync = Some(TRUE)
       /\ inv'.calls = Append(inv.calls, inv'.calls[Len(inv'.calls)])
       /\ inv'.calls[Len(inv'.calls)].op = "sync_issues"
       /\ inv'.pc = "find" <=> inv'.calls[Len(inv'.calls)].ok

\* Claim C36: a failed initial sync does not stop the server: it starts
\* with an empty cache and no time of a last sync, so the first invocation
\* that reaches the freshness check syncs before anything is scored or
\* created.
C36_FailedInitialSyncNotFatal == []C36_State /\ [][C36_Step]_vars

\* on a server whose initial sync failed, an invocation synced and then
\* created an issue
C36_Witness ==
  /\ srv = "serving"
  /\ IsNone(inv.last_sync0)
  /\ inv.issues0 = <<>>
  /\ inv.calls # <<>>
  /\ \E k \in CallsOf(inv.calls, "sync_issues") :
       inv.calls[k].ok /\ \A c \in CallsOf(inv.calls, "create_issue") : k < c
  /\ inv.pc = "returned"
  /\ Get(inv.result).action = "created"

----------------------------------------------------------------------------
(* C37 *)

\* the two runs have ended: the webhook's is recorded, the tool's is the
\* invocation
BothEnded == inv.caller = "mcp" /\ inv.pc \in {"returned", "raised"}

\* the decision a text of the tool stands for
McpDecision(result) ==
  CASE result.text = "Comment does not contain a request to create a Jira issue"
         -> "skipped"
    [] result.text = "Found similar existing issue" -> "found_similar"
    [] result.text = "Created new Jira issue" -> "created"

\* the key of the issue a result of the webhook's procedure is about
ResultKey(result) == IF IsNone(result.issue) THEN NoArg ELSE Get(result.issue).key

\* the cache and the project after the tool's run are those after the
\* webhook's run
SameCache ==
  /\ issues = task.issues
  /\ last_sync = task.last_sync
  /\ upstream = task.upstream

\* Claim C37: from the same cache, for the same pull request, comment and
\* threshold and the same answers of Jira and GitHub, the MCP tool and the
\* webhook's procedure end the same way.  When no collaborator fails both
\* return, after the same calls (same operations, in the same order, on the
\* same issues), with the same decision about the same issue and score, and
\* leave the same cache.  When one fails both raise the same error and leave
\* the same cache, and the webhook's calls are the tool's calls followed by
\* the error comment.
C37_SameDecisionProcedure ==
  BothEnded =>
    /\ inv.pc = task.pc
    /\ SameCache
    /\ task.pc = "returned" =>
         /\ inv.calls = task.calls
         /\ McpDecision(Get(inv.result)) = Get(task.result).action
         /\ Get(inv.result).key = ResultKey(Get(task.result))
         /\ Get(inv.result).similarity = Get(task.result).similarity
    /\ task.pc = "raised" =>
         /\ inv.error = task.error
         /\ Len(task.calls) = Len(inv.calls) + 1
         /\ SubSeq(task.calls, 1, Len(inv.calls)) = inv.calls
         /\ task.calls[Len(task.calls)].op = "add_comment:error"
         /\ CallsOf(inv.calls, "add_comment:error") = {}

\* both runs synced a stale cache and created an issue
C37_Witness ==
  /\ BothEnded
  /\ task.pc = "returned"
  /\ Get(task.result).action = "created"
  /\ McpDecision(Get(inv.result)) = "created"
  /\ inv.needed_sync = Some(TRUE)
  /\ Len(issues) > 1

----------------------------------------------------------------------------
(* C38 *)

\* the name a request calls, when it gives one as a string
CalledName(request) ==
  IF request.params.kind = "dict" /\ request.params.name.kind = "str"
  THEN Some(request.params.name.value)
  ELSE None

\* a "tools/call" for a name that has a handler
CallsRegistered(server, request) ==
  /\ request.method = Some("tools/call")
  /\ ~IsNone(CalledName(request))
  /\ HasHandler(server, Get(CalledName(request)))

\* what the claim says of the answer to a request
C38_Answered(server, request, response) ==
  /\ response.kind # "raised"
  /\ request.method = Some("tools/list") =>
       (response.kind = "tools" /\ response.tools = server.tools)
  /\ CallsRegistered(server, request) =>
       /\ response.kind = "content"
       /\ response.called = <<server.tool_handlers[Get(CalledName(request))]>>
       /\ \E outcome \in HandlerOutcomes :
            /\ response.isError = outcome.raises
            /\ response.text = IF outcome.raises THEN "Error: " \o outcome.text
                               ELSE outcome.text
  /\ (request.method = Some("tools/call") /\ ~CallsRegistered(server, request)) =>
       (response.kind = "content" /\ response.isError /\ response.called = <<>>)
  /\ request.method \notin {Some("tools/list"), Some("tools/call")} =>
       /\ response.kind = "error"
       /\ response.text = "Unknown method: " \o Str(request.method)
       /\ response.called = <<>>

\* Claim C38: handle_request never raises: "tools/list" answers the
\* registered tools in the order of their registration; "tools/call" for a
\* registered name answers the handler's text, or an error "Error: <message>"
\* when the handler raises; "tools/call" for any other name answers an error
\* and calls no handler; any other method answers "Unknown method".
C38_HandlerNeverRaises ==
  [][(inv'.server = inv.server /\ ~IsNone(inv'.request)) =>
       C38_Answered(inv.server, Get(inv'.request), Get(inv'.response))]_vars

----------------------------------------------------------------------------
(* C39 *)

\* an issue without a description (none, or an empty one) and without labels
SummaryOnly(issue) ==
  /\ IsNone(issue.description) \/ Get(issue.description) = {}
  /\ issue.labels = <<>>

\* Claim C39: the summary weighs 0.7, so an issue without description and
\* labels is returned at the threshold 0.7 only if its summary score is 1.0,
\* and at a threshold above 0.7 it is not returned at all.
C39_SummaryAloneReachesDefaultOnly ==
  Scored =>
    \A k \in 1..Len(issues) :
      SummaryOnly(issues[k]) =>
        /\ (inv.threshold = DefaultThreshold /\ ResultsFor(issues[k]) # {}) =>
             FieldScore("summary", issues[k]) = 1000
        /\ inv.threshold > WSummary * 100 => ResultsFor(issues[k]) = {}

\* at the threshold 0.7 an issue without description and labels, whose
\* summary is the search text, was returned with the score 0.7
C39_Witness ==
  /\ Scored
  /\ inv.threshold = DefaultThreshold
  /\ \E k \in 1..Len(issues) :
       /\ SummaryOnly(issues[k])
       /\ \E r \in ResultsFor(issues[k]) : Results[r].score = WSummary * 100

====
